---- MODULE Spec2Model ----
(***************************************************************************)
(* A model of the resume parsing / normalisation pipeline of AIJobOptimizer *)
(* (optimizer/utils/parser.py, optimizer/utils/extract.py) and of the       *)
(* Streamlit session it writes to.                                          *)
(*                                                                          *)
(* Representation of Python values                                          *)
(*   str    [str  |-> <<c1, ..., cn>>]   the characters, one per element    *)
(*   list   [list |-> <<v1, ..., vn>>]                                      *)
(*   int    [int  |-> n]                                                    *)
(*   None   [none |-> TRUE]                                                 *)
(*   dict   a function from its keys (TLA+ strings) to values               *)
(*   str(uuid.uuid4())   [uuid |-> n], n fresh                              *)
(*   exception raised    [exc  |-> name], in place of the value returned    *)
(* A function with several statements is a chain of operators: each takes   *)
(* the result of the call made so far as an argument and goes on from it.   *)
(***************************************************************************)
EXTENDS Integers, Sequences, FiniteSets, TLC

VARIABLES
    session_state,  \* st.session_state: the keys the parser reads and writes
    cache,          \* the @st.cache_data stores, one per cached function
    uuid_next,      \* number of uuid.uuid4() values drawn so far
    shared,         \* the key of session_state.resume whose list is the same
                    \* object as session_state.experiences, "" when none is
    scenario,       \* the inputs of the run: the texts the user may enter and
                    \* the outcomes the completion service may give
    last,           \* what the last handler did (history, for the properties)
    probe           \* input and result of a function applied on its own

vars == <<session_state, cache, uuid_next, shared, scenario, last, probe>>

None == [none |-> TRUE]

Str(s) == [str |-> s]

List(l) == [list |-> l]

IntV(n) == [int |-> n]

Uuid(n) == [uuid |-> n]

IsStr(v) == DOMAIN v = {"str"}

IsList(v) == DOMAIN v = {"list"}

IsUuid(v) == DOMAIN v = {"uuid"}

(***************************************************************************)
(* Character-level string operations                                       *)
(***************************************************************************)
StartsWith(s, p) == Len(p) <= Len(s) /\ SubSeq(s, 1, Len(p)) = p

\* p occurs in s starting at position i
OccursAt(s, p, i) ==
    /\ i >= 1
    /\ i + Len(p) - 1 <= Len(s)
    /\ SubSeq(s, i, i + Len(p) - 1) = p

\* Python: p in s
Contains(s, p) == \E i \in 1..(Len(s) + 1) : OccursAt(s, p, i)

IsSpace(c) == c \in {" ", "\n", "\t"}

RECURSIVE LStrip(_)
LStrip(s) == IF s # <<>> /\ IsSpace(Head(s)) THEN LStrip(Tail(s)) ELSE s

RECURSIVE RStrip(_)
RStrip(s) ==
    IF s # <<>> /\ IsSpace(s[Len(s)]) THEN RStrip(SubSeq(s, 1, Len(s) - 1)) ELSE s

\* str.strip()
Strip(s) == RStrip(LStrip(s))

\* str.replace(old, ''): the non-overlapping occurrences of old, found left
\* to right, are removed; an empty old leaves the string as it is.
RECURSIVE Remove(_, _)
Remove(s, old) ==
    IF old = <<>> \/ Len(s) < Len(old) THEN s
    ELSE IF StartsWith(s, old)
         THEN Remove(SubSeq(s, Len(old) + 1, Len(s)), old)
         ELSE <<Head(s)>> \o Remove(Tail(s), old)

Exc(name) == [exc |-> name]

\* dict with d[k] = v, the other keys as in d
Put(d, k, v) == [x \in DOMAIN d \cup {k} |-> IF x = k THEN v ELSE d[x]]

IsExc(v) == DOMAIN v = {"exc"}

Min(S) == CHOOSE x \in S : \A y \in S : x <= y

Max(S) == CHOOSE x \in S : \A y \in S : x >= y

\* end positions e >= p such that s[p..e] is followed by close
Ends(s, close, p) == {e \in p..Len(s) : OccursAt(s, close, e + 1)}

\* start positions of a non-empty match that open precedes and close follows
Starts(s, open, close) ==
    {p \in 1..Len(s) : OccursAt(s, open, p - Len(open)) /\ Ends(s, close, p) # {}}

\* re.findall(r'(?<=open).+?(?=close)', s, flags=re.DOTALL)[0], None when
\* findall returns []
FirstLazy(s, open, close) ==
    IF Starts(s, open, close) = {} THEN None
    ELSE LET p == Min(Starts(s, open, close))
         IN Str(SubSeq(s, p, Min(Ends(s, close, p))))

\* re.findall(r'(?<=open).+(?=close)', s, flags=re.DOTALL)[0]
FirstGreedy(s, open, close) ==
    IF Starts(s, open, close) = {} THEN None
    ELSE LET p == Min(Starts(s, open, close))
         IN Str(SubSeq(s, p, Max(Ends(s, close, p))))

\* re.findall(r'open(.*?)close', s, flags=re.DOTALL)[0]: the group
FirstGroup(s, open, close) ==
    LET from(p) == {e \in (p + Len(open))..(Len(s) + 1) : OccursAt(s, close, e)}
        starts == {p \in 1..Len(s) : OccursAt(s, open, p) /\ from(p) # {}}
    IN IF starts = {} THEN None
       ELSE LET p == Min(starts)
            IN Str(SubSeq(s, p + Len(open), Min(from(p)) - 1))

\* re.findall(r'(?<=:).*', s, flags=re.DOTALL)[0]: all that follows the
\* first colon, possibly nothing
AfterColon(s) ==
    LET colons == {i \in 1..Len(s) : s[i] = ":"}
    IN IF colons = {} THEN None
       ELSE Str(SubSeq(s, Min(colons) + 1, Len(s)))

DQUOTE == <<"\"">>

SQUOTE == <<"'">>

CODE_OPEN == <<"<","c","o","d","e",">">>

CODE_CLOSE == <<"<","/","c","o","d","e",">">>

\* the backquote character (it cannot be written in a TLA+ string)
BQ == "bq"

FENCE == <<BQ, BQ, BQ>>

FENCE_PYTHON == <<BQ, BQ, BQ, "p","y","t","h","o","n">>

FENCE_HTML == <<BQ, BQ, BQ, "h","t","m","l">>

\* extract.py extract_by_quotation_mark; the membership test raises
\* TypeError when content is None
extract_by_quotation_mark(content) ==
    IF ~IsStr(content) THEN Exc("TypeError")
    ELSE IF Contains(content.str, DQUOTE)
         THEN FirstLazy(content.str, DQUOTE, DQUOTE)
         ELSE IF Contains(content.str, SQUOTE)
              THEN FirstGreedy(content.str, SQUOTE, SQUOTE)
              ELSE None

\* the patterns of extract_code with the colon pattern tried before the
\* fences and the tag
CodePattern_colon_first(s, k) ==
    CASE k = 1 -> AfterColon(s)
      [] k = 2 -> FirstLazy(s, FENCE_PYTHON, FENCE)
      [] k = 3 -> FirstLazy(s, FENCE_HTML, FENCE)
      [] k = 4 -> FirstGreedy(s, FENCE, FENCE)
      [] k = 5 -> FirstLazy(s, CODE_OPEN, CODE_CLOSE)
      [] k = 6 -> FirstGroup(s, CODE_OPEN, CODE_CLOSE)
      [] k = 7 -> FirstLazy(s, DQUOTE, DQUOTE)
      [] k = 8 -> FirstGreedy(s, SQUOTE, SQUOTE)

\* the patterns of extract_code, in the order of its list
CodePattern(s, k) ==
    CASE k = 1 -> FirstLazy(s, FENCE_PYTHON, FENCE)
      [] k = 2 -> FirstLazy(s, FENCE_HTML, FENCE)
      [] k = 3 -> FirstGreedy(s, FENCE, FENCE)
      [] k = 4 -> FirstLazy(s, CODE_OPEN, CODE_CLOSE)
      [] k = 5 -> FirstGroup(s, CODE_OPEN, CODE_CLOSE)
      [] k = 6 -> AfterColon(s)
      [] k = 7 -> FirstLazy(s, DQUOTE, DQUOTE)
      [] k = 8 -> FirstGreedy(s, SQUOTE, SQUOTE)

NumCodePatterns == 8

\* extract.py extract_code; re.findall(pattern, None) raises TypeError
extract_code(content) ==
    IF ~IsStr(content) THEN Exc("TypeError")
    ELSE LET hit == {k \in 1..NumCodePatterns : CodePattern(content.str, k) # None}
         IN IF hit = {} THEN None
            ELSE Str(Remove(Remove(CodePattern(content.str, Min(hit)).str,
                                   CODE_OPEN), CODE_CLOSE))

(***************************************************************************)
(* parser.py: field lookup                                                 *)
(***************************************************************************)
\* the generator (v for v in candidates if v in obj): the candidates that
\* are keys of obj, in the order of candidates
RECURSIVE KeysIn(_, _)
KeysIn(obj, candidates) ==
    IF candidates = <<>> THEN <<>>
    ELSE (IF Head(candidates) \in DOMAIN obj THEN <<Head(candidates)>> ELSE <<>>)
         \o KeysIn(obj, Tail(candidates))

\* search_field taking the last candidate that is a key instead of the first
search_field_last(obj, candidates) ==
    LET candidate == KeysIn(obj, candidates)
    IN IF candidate # <<>> THEN obj[candidate[Len(candidate)]] ELSE None

\* search_field accepting a key that differs from a candidate in case or in
\* the separator ('_' for ' ')
search_field_folding(obj, candidates) ==
    LET fold(k) == IF k \in {"Core Competencies", "Core_Competencies",
                              "core_competencies"}
                   THEN "core competencies" ELSE k
        hits == {i \in 1..Len(candidates) :
                    \E k \in DOMAIN obj : fold(k) = fold(candidates[i])}
        first == CHOOSE i \in hits : \A j \in hits : i <= j
    IN IF hits = {} THEN None
       ELSE obj[CHOOSE k \in DOMAIN obj : fold(k) = fold(candidates[first])]

\* parser.py search_field: next(candidate, None), then obj[key] or None
search_field(obj, candidates) ==
    LET candidate == KeysIn(obj, candidates)
    IN IF candidate # <<>> THEN obj[Head(candidate)] ELSE None

(***************************************************************************)
(* The environment a call runs in: the @st.cache_data stores, the uuid     *)
(* source, and the completion service.  oracle holds the outcomes of the   *)
(* next completion calls (a reply, None, or an exception); llm counts the  *)
(* completion calls made; log lists the queries that went to the service   *)
(* or to its cache, in the order they returned, with what they returned    *)
(* and hit = TRUE when st.cache_data answered without running the body.    *)
(* A call returns [ret |-> value or exception, env |-> environment after]. *)
(***************************************************************************)
MaxUuid == 5

Ret(v, env) == [ret |-> v, env |-> env]

\* st.cache_data lookup: the stored entries of function fn
Entries(env, fn) == env.cache[fn]

IsCached(env, fn, key) == \E e \in Entries(env, fn) : e.key = key

CachedValue(env, fn, key) == (CHOOSE e \in Entries(env, fn) : e.key = key).val

\* st.cache_data stores the value a body returned (never an exception)
Store(env, fn, key, val) ==
    [env EXCEPT !.cache[fn] = @ \cup {[key |-> key, val |-> val]}]

\* a fallback query has returned ret (or raised it)
Logged(env, fn, key, hit, ret) ==
    [env EXCEPT !.log = Append(@, [fn |-> fn, key |-> key, hit |-> hit, ret |-> ret])]

\* a cached query is over: a value the body returned is stored, and the
\* query is logged
Answered(env, fn, key, ret) ==
    Ret(ret, Logged(IF IsExc(ret) THEN env ELSE Store(env, fn, key, ret),
                    fn, key, FALSE, ret))

\* st.cache_data answers from its store
Replayed(env, fn, key) ==
    Ret(CachedValue(env, fn, key),
        Logged(env, fn, key, TRUE, CachedValue(env, fn, key)))

\* uuid.uuid4()
uuid4(env) == Ret(Uuid(env.uuid + 1), [env EXCEPT !.uuid = @ + 1])

\* gpt/api.py call_openai_api, seen from its caller: one request to the
\* completion service, answered by a reply (str), None, or an exception.
\* The token counters it adds to in the session are left out.
call_openai_api(env) ==
    IF env.oracle = <<>>
    THEN Ret(None, [env EXCEPT !.over = TRUE])
    ELSE Ret(Head(env.oracle),
             [env EXCEPT !.oracle = Tail(@), !.llm = @ + 1])

\* parser.py query_project_title (cached on project_info)
query_project_title(project_info, env) ==
    LET fn == "query_project_title"
        c == call_openai_api(env)
        reply == c.ret
        code == extract_code(reply)
        result_str == IF code = None THEN extract_by_quotation_mark(reply)
                      ELSE code
    IN IF IsCached(env, fn, project_info) THEN Replayed(env, fn, project_info)
       ELSE IF IsExc(reply) THEN Answered(c.env, fn, project_info, reply)
       ELSE Answered(c.env, fn, project_info, result_str)

\* parser.py query_project_description (cached on the project dict, which
\* holds the uuid, the title and the description found so far)
query_project_description(project, env) ==
    LET fn == "query_project_description"
        c == call_openai_api(env)
        reply == c.ret
        result_str == extract_code(reply)
    IN IF IsCached(env, fn, project) THEN Replayed(env, fn, project)
       ELSE IF IsExc(reply) THEN Answered(c.env, fn, project, reply)
       ELSE Answered(c.env, fn, project, result_str)

Alnum ==
    {"A","B","C","D","E","F","G","H","I","J","K","L","M","N","O","P","Q","R",
     "S","T","U","V","W","X","Y","Z","a","b","c","d","e","f","g","h","i","j",
     "k","l","m","n","o","p","q","r","s","t","u","v","w","x","y","z","0","1",
     "2","3","4","5","6","7","8","9"}

\* re.sub(r'[^A-Za-z0-9 ]+', '', c)
RECURSIVE KeepAlnumSpace(_)
KeepAlnumSpace(s) ==
    IF s = <<>> THEN <<>>
    ELSE (IF Head(s) \in Alnum \cup {" "} THEN <<Head(s)>> ELSE <<>>)
         \o KeepAlnumSpace(Tail(s))

\* str.split(sep) for a one-character sep: the list of the parts
RECURSIVE Split(_, _)
Split(s, sep) ==
    LET at == {i \in 1..Len(s) : s[i] = sep}
    IN IF at = {} THEN <<s>>
       ELSE <<SubSeq(s, 1, Min(at) - 1)>>
            \o Split(SubSeq(s, Min(at) + 1, Len(s)), sep)

\* parser.py query_project_contributions (cached on project_name)
query_project_contributions(project_name, env) ==
    LET fn == "query_project_contributions"
        c == call_openai_api(env)
        reply == c.ret
        result_str == extract_code(reply)
        lines == Split(Strip(result_str.str), "\n")
        contributions ==
            IF result_str # None
            THEN List([i \in 1..Len(lines) |-> Str(KeepAlnumSpace(lines[i]))])
            ELSE List(<<>>)
    IN IF IsCached(env, fn, project_name) THEN Replayed(env, fn, project_name)
       ELSE IF IsExc(reply) THEN Answered(c.env, fn, project_name, reply)
       ELSE IF IsExc(result_str) THEN Answered(c.env, fn, project_name, result_str)
       ELSE Answered(c.env, fn, project_name, contributions)

PROJECT_COLON == <<"P","r","o","j","e","c","t",":">>

THE_PROJECT_NAME_IS ==
    <<"T","h","e"," ","p","r","o","j","e","c","t"," ","n","a","m","e"," ","i","s"," ">>

\* the title looked up under 'description' before 'project'
TITLE_CANDIDATES_description_first == <<"description", "project", "title">>

\* the title looked up under 'title' before 'project' and 'description'
TITLE_CANDIDATES_title_first == <<"title", "project", "description">>

\* the candidate lists of parse_project
TITLE_CANDIDATES == <<"project", "description", "title">>

DESCRIPTION_CANDIDATES == <<"project_description", "project description", "description">>

CONTRIBUTIONS_CANDIDATES == <<"contributions", "key_contributions">>

\* parser.py parse_project, lines 261-266: the clean-up of the title
CleanTitle(title) ==
    LET t1 == Strip(Remove(title, PROJECT_COLON))
        t2 == Strip(Remove(t1, THE_PROJECT_NAME_IS))
        temp_title == extract_by_quotation_mark(Str(t2))
    IN IF temp_title # None THEN temp_title ELSE Str(t2)

\* parser.py parse_project, lines 257-260: the clean-up of the description
CleanDescription(description, title) ==
    Str(Strip(Remove(Strip(Remove(description, title)), PROJECT_COLON)))

\* parser.py parse_project, lines 257-266.  None.replace raises
\* AttributeError, replace(None, '') raises TypeError.
CleanProject(project) ==
    IF ~IsStr(project.description) THEN Exc("AttributeError")
    ELSE IF ~IsStr(project.title) THEN Exc("TypeError")
    ELSE [project EXCEPT
            !.description = CleanDescription(project.description.str,
                                             project.title.str),
            !.title = CleanTitle(project.title.str)]

\* the fallback taken only when no description was found
NeedsFallback_missing_only(project) ==
    project.description = None

\* parser.py parse_project, lines 253-254: the description is missing or is
\* the title
NeedsFallback(project) ==
    project.description = None \/ project.description = project.title

\* parser.py parse_project, lines 269-271: q is the contributions query
\* as it returned
ContributionsQueried(project, q) ==
    IF IsExc(q.ret) THEN q
    ELSE Ret(Put(project, "contributions", q.ret), q.env)

\* parser.py parse_project, lines 267-271
ProjectContributions(exp_or_project_in, project, env) ==
    IF search_field(exp_or_project_in, CONTRIBUTIONS_CANDIDATES) # None
    THEN Ret(Put(project, "contributions",
                 search_field(exp_or_project_in, CONTRIBUTIONS_CANDIDATES)), env)
    ELSE ContributionsQueried(project,
                              query_project_contributions(project.title, env))

\* parser.py parse_project, lines 257-272: cleaned is the project after the
\* clean-up of title and description, or the exception the clean-up raised
ProjectCleaned(exp_or_project_in, cleaned, env) ==
    IF IsExc(cleaned) THEN Ret(cleaned, env)
    ELSE ProjectContributions(exp_or_project_in, cleaned, env)

\* parser.py parse_project, line 256: qd is the description query as it
\* returned
DescriptionQueried(exp_or_project_in, project, qd) ==
    IF IsExc(qd.ret) THEN qd
    ELSE ProjectCleaned(exp_or_project_in,
                        CleanProject([project EXCEPT !.description = qd.ret]),
                        qd.env)

\* parser.py parse_project, lines 255-256: qt is the title query as it
\* returned; the description query gets the project with the new title
TitleQueried(exp_or_project_in, project, qt) ==
    IF IsExc(qt.ret) THEN qt
    ELSE DescriptionQueried(
            exp_or_project_in, [project EXCEPT !.title = qt.ret],
            query_project_description([project EXCEPT !.title = qt.ret], qt.env))

\* parser.py parse_project, lines 253-272: project holds the uuid and what
\* was found for title and description
ProjectFound(exp_or_project_in, project, env) ==
    IF NeedsFallback(project)
    THEN TitleQueried(exp_or_project_in, project,
                      query_project_title(project.title, env))
    ELSE ProjectCleaned(exp_or_project_in, CleanProject(project), env)

\* parser.py parse_project
parse_project(exp_or_project_in, env) ==
    ProjectFound(exp_or_project_in,
                 [uuid |-> uuid4(env).ret,
                  title |-> search_field(exp_or_project_in, TITLE_CANDIDATES),
                  description |-> search_field(exp_or_project_in,
                                               DESCRIPTION_CANDIDATES)],
                 uuid4(env).env)

(***************************************************************************)
(* parser.py: dates and experiences                                        *)
(***************************************************************************)
\* datetime.strftime('%b')
MONTH_ABBR ==
    << <<"J","a","n">>, <<"F","e","b">>, <<"M","a","r">>, <<"A","p","r">>,
       <<"M","a","y">>, <<"J","u","n">>, <<"J","u","l">>, <<"A","u","g">>,
       <<"S","e","p">>, <<"O","c","t">>, <<"N","o","v">>, <<"D","e","c">> >>

DIGITS == <<"0","1","2","3","4","5","6","7","8","9">>

\* str(n) for an int n >= 0
RECURSIVE Decimal(_)
Decimal(n) ==
    IF n < 10 THEN <<DIGITS[n + 1]>>
    ELSE Decimal(n \div 10) \o <<DIGITS[(n % 10) + 1]>>

\* the text between the two dates in the f-string of get_date_range: " - ",
\* then the indentation of the continuation line (18 spaces)
DATE_JOIN ==
    <<" ","-"," ">> \o
    <<" "," "," "," "," "," "," "," "," "," "," "," "," "," "," "," "," "," ">>

IsDict(v) == DOMAIN v \cap {"str", "list", "int", "none", "uuid", "exc"} = {}

IsInt(v) == DOMAIN v = {"int"}

\* datetime.datetime(year=int(d['year']), month=int(d['month']), day=1)
\* .strftime('%b') for d = exp[which]; KeyError when a key is missing,
\* ValueError when the month is out of range
MonthOf(exp, which) ==
    IF which \notin DOMAIN exp THEN Exc("KeyError")
    ELSE IF ~IsDict(exp[which]) THEN Exc("TypeError")
    ELSE IF "year" \notin DOMAIN exp[which] \/ "month" \notin DOMAIN exp[which]
         THEN Exc("KeyError")
    ELSE IF ~IsInt(exp[which].year) \/ ~IsInt(exp[which].month)
         THEN Exc("TypeError")
    ELSE IF exp[which].month.int \notin 1..12 THEN Exc("ValueError")
    ELSE Str(MONTH_ABBR[exp[which].month.int])

\* parser.py get_date_range
get_date_range(exp) ==
    LET month_start == MonthOf(exp, "start")
        month_end == MonthOf(exp, "end")
    IN IF IsExc(month_start) THEN month_start
       ELSE IF IsExc(month_end) THEN month_end
       ELSE Str(month_start.str \o <<" ">> \o Decimal(exp.start.year.int)
                \o DATE_JOIN
                \o month_end.str \o <<" ">> \o Decimal(exp["end"].year.int))

\* parser.py parse_experience, lines 307-315
ExperienceDateRange(exp_in) ==
    LET found == IF "start" \in DOMAIN exp_in THEN get_date_range(exp_in)
                 ELSE search_field(exp_in, <<"dates", "date", "date_range">>)
        start_date == search_field(exp_in, <<"start_date">>)
        end_date == search_field(exp_in, <<"end_date">>)
    IN IF found # None THEN found
       ELSE IF ~IsStr(start_date) \/ ~IsStr(end_date) THEN Exc("TypeError")
       ELSE Str(start_date.str \o <<" ","-"," ">> \o end_date.str)

\* parser.py parse_experience, lines 322-324: the projects list is
\* normalised in place, element by element, from index i on.  Returns the
\* list as far as it got, and the exception when a parse_project raised.
RECURSIVE ParseProjects(_, _, _)
\* line 324: p is parse_project of element i as it returned
ProjectParsed(projects, i, p) ==
    IF IsExc(p.ret) THEN [ret |-> p.ret, env |-> p.env, projects |-> projects]
    ELSE ParseProjects([projects EXCEPT ![i] = p.ret], i + 1, p.env)

ParseProjects(projects, i, env) ==
    IF i > Len(projects) THEN [ret |-> None, env |-> env, projects |-> projects]
    ELSE ProjectParsed(projects, i, parse_project(projects[i], env))

\* parser.py parse_experience, lines 304-315: title, company and date_range
ExperienceOut(exp_in) ==
    [title |-> search_field(exp_in, <<"title", "position", "job_title">>),
     company |-> search_field(exp_in, <<"company", "organisation", "employer">>),
     date_range |-> ExperienceDateRange(exp_in)]

\* parser.py parse_experience, lines 318-320: single is parse_project of a
\* copy of the experience as it returned
SingleProject(exp_in, exp_out, single) ==
    IF IsExc(single.ret)
    THEN [ret |-> single.ret, env |-> single.env, exp_in |-> exp_in]
    ELSE [ret |-> Put(exp_out, "projects", List(<<single.ret>>)),
          env |-> single.env, exp_in |-> exp_in]

\* parser.py parse_experience, lines 321-326: each is the loop over the
\* projects as it ended.  exp_out['projects'] is the list object of
\* exp_in['projects'], so the caller's dict sees the normalised projects.
EachProject(exp_in, exp_out, each) ==
    IF IsExc(each.ret)
    THEN [ret |-> each.ret, env |-> each.env,
          exp_in |-> Put(exp_in, "projects", List(each.projects))]
    ELSE [ret |-> Put(exp_out, "projects", List(each.projects)),
          env |-> each.env,
          exp_in |-> Put(exp_in, "projects", List(each.projects))]

\* parser.py parse_experience, the body.  exp_in in the result is the
\* argument as the body leaves it.
ParseExperienceBody(exp_in, env) ==
    IF IsExc(ExperienceDateRange(exp_in))
    THEN [ret |-> ExperienceDateRange(exp_in), env |-> env, exp_in |-> exp_in]
    ELSE IF search_field(exp_in, <<"projects">>) = None
    THEN SingleProject(exp_in, ExperienceOut(exp_in), parse_project(exp_in, env))
    ELSE IF ~IsList(search_field(exp_in, <<"projects">>))
    THEN [ret |-> Exc("TypeError"), env |-> env, exp_in |-> exp_in]
    ELSE EachProject(exp_in, ExperienceOut(exp_in),
                     ParseProjects(search_field(exp_in, <<"projects">>).list, 1, env))

\* st.cache_data stores what the body b of parse_experience returned
ExperienceStored(exp_in, b) ==
    IF IsExc(b.ret) THEN b
    ELSE [b EXCEPT !.env = Store(b.env, "parse_experience", exp_in, b.ret)]

\* parser.py parse_experience (cached on exp_in): a hit returns the stored
\* value and leaves exp_in alone
parse_experience(exp_in, env) ==
    IF IsCached(env, "parse_experience", exp_in)
    THEN [ret |-> CachedValue(env, "parse_experience", exp_in), env |-> env,
          exp_in |-> exp_in]
    ELSE ExperienceStored(exp_in, ParseExperienceBody(exp_in, env))

\* an experience normalised before is normalised again
AlreadyNormalised_never(exp) == FALSE

\* parser.py parse_expereinces, line 347: the experience was normalised
\* before
AlreadyNormalised(exp) == "uuid" \in DOMAIN exp

\* parser.py parse_expereinces, the loop from element i on.  raw is the list
\* iterated (its dicts are the objects parse_experience works on), done the
\* list built so far.
RECURSIVE ParseEach(_, _, _, _)
\* lines 348-353: e is parse_experience of element i as it returned; the
\* experience gets its uuid
EachParsed(raw, i, done, e) ==
    IF IsExc(e.ret)
    THEN [ret |-> e.ret, env |-> e.env, raw |-> [raw EXCEPT ![i] = e.exp_in]]
    ELSE ParseEach([raw EXCEPT ![i] = e.exp_in], i + 1,
                   Append(done, Put(e.ret, "uuid", uuid4(e.env).ret)),
                   uuid4(e.env).env)

ParseEach(raw, i, done, env) ==
    IF i > Len(raw) THEN [ret |-> List(done), env |-> env, raw |-> raw]
    ELSE IF AlreadyNormalised(raw[i])
    THEN ParseEach(raw, i + 1, Append(done, raw[i]), env)
    ELSE EachParsed(raw, i, done, parse_experience(raw[i], env))

(***************************************************************************)
(* parser.py: the session-level steps.  A step returns                     *)
(*   [ret, env, ss, alias]: ss is st.session_state after the step, alias   *)
(* the key of ss.resume whose list is the very object ss.experiences (""   *)
(* when they are distinct objects).                                        *)
(***************************************************************************)
Step(ret, env, ss, alias) == [ret |-> ret, env |-> env, ss |-> ss, alias |-> alias]

\* the list object shared with the resume is updated in the resume too
WithRaw(ss, alias, raw) ==
    IF alias = "" THEN Put(ss, "experiences", List(raw))
    ELSE Put(Put(ss, "experiences", List(raw)),
             "resume", Put(ss.resume, alias, List(raw)))

\* parser.py parse_expereinces, lines 345-354: loop is the loop over the
\* experiences (a list) as it ended
ExperiencesParsed(ss, alias, loop) ==
    IF IsExc(loop.ret)
    THEN Step(loop.ret, loop.env, WithRaw(ss, alias, loop.raw), alias)
    ELSE Step(None, loop.env,
              Put(WithRaw(ss, alias, loop.raw), "experiences", loop.ret), "")

\* parser.py parse_expereinces.  Iterating "" (the default of
\* get_experiences) visits nothing.
parse_expereinces(ss, alias, env) ==
    IF IsStr(ss.experiences)
    THEN Step(None, env, Put(ss, "experiences", List(<<>>)), "")
    ELSE IF ~IsList(ss.experiences) THEN Step(Exc("TypeError"), env, ss, alias)
    ELSE ExperiencesParsed(ss, alias, ParseEach(ss.experiences.list, 1, <<>>, env))

(***************************************************************************)
(* The resume texts.  A text is the str "{d}" for a document name d, or    *)
(* some other str; json.loads of "{d}" is the document Documents[d], and   *)
(* any other str is not JSON.                                              *)
(***************************************************************************)
S_X == Str(<<"X">>)

S_BuiltX == Str(<<"B","u","i","l","t"," ","X">>)

S_DidA == Str(<<"D","i","d"," ","A">>)

S_DidB == Str(<<"D","i","d"," ","B">>)

S_Dev == Str(<<"D","e","v">>)

S_Acme == Str(<<"A","c","m","e">>)

S_Engineer == Str(<<"E","n","g","i","n","e","e","r",".">>)

S_Python == Str(<<"P","y","t","h","o","n">>)

S_SQL == Str(<<"S","Q","L">>)

Jan2020 == [year |-> IntV(2020), month |-> IntV(1)]

Jun2022 == [year |-> IntV(2022), month |-> IntV(6)]

\* the project of the end-to-end scenario
ProjectX == [title |-> S_X, description |-> S_BuiltX,
             contributions |-> List(<<S_DidA, S_DidB>>)]

\* the same project, named by a project key
ProjectNamedX == [project |-> S_X, description |-> S_BuiltX,
                  contributions |-> List(<<S_DidA>>)]

S_Analyst == Str(<<"A","n","a","l","y","s","t",".">>)

\* another project named by a project key
ProjectNamedY == [project |-> Str(<<"Y">>),
                  description |-> Str(<<"B","u","i","l","t"," ","Y">>),
                  contributions |-> List(<<S_DidB>>)]

ExperienceOf(projects) ==
    [title |-> S_Dev, company |-> S_Acme, start |-> Jan2020, end |-> Jun2022,
     projects |-> List(projects)]

ResumeOf(experiences) ==
    [statement |-> S_Engineer, skills |-> [tech |-> List(<<S_Python, S_SQL>>)],
     experiences |-> List(experiences)]

\* the JSON documents of the model, by name
Documents ==
    [d \in {"1", "2", "3", "4", "5", "6", "7"} |->
        CASE d = "1" -> ResumeOf(<<ExperienceOf(<<ProjectX>>)>>)
          [] d = "2" -> ResumeOf(<<ExperienceOf(<<ProjectNamedX>>)>>)
          [] d = "3" -> [profile |-> S_Engineer,
                         skills |-> List(<<S_Python>>),
                         experience |-> List(<<[position |-> S_Dev,
                                                employer |-> S_Acme,
                                                dates |-> Str(<<"2","0","2","0">>),
                                                project |-> S_X,
                                                description |-> S_BuiltX,
                                                key_contributions |-> List(<<S_DidA>>)]>>)]
          [] d = "4" -> [statement |-> S_Engineer,
                         skills |-> [tech |-> List(<<S_SQL>>)]]
          [] d = "5" -> ResumeOf(<<ExperienceOf(<<ProjectNamedX>>),
                                   ExperienceOf(<<ProjectNamedX>>)>>)
          [] d = "6" -> [statement |-> S_Analyst,
                         skills |-> [tech |-> List(<<S_SQL>>)],
                         experiences |-> List(<<ExperienceOf(<<ProjectNamedY>>)>>)]
          [] d = "7" -> [statement |-> S_Analyst,
                         skills |-> List(<<S_SQL>>),
                         experiences |-> List(<<ExperienceOf(<<ProjectNamedY>>)>>)]]

JsonText(d) == Str(<<"{", d, "}">>)

IsJsonText(s) ==
    IsStr(s) /\ Len(s.str) = 3 /\ s.str[1] = "{" /\ s.str[3] = "}"
    /\ s.str[2] \in DOMAIN Documents

\* json.loads: TypeError for None, JSONDecodeError (a ValueError) for a str
\* that is not JSON
json_loads(s) ==
    IF ~IsStr(s) THEN Exc("TypeError")
    ELSE IF IsJsonText(s) THEN Documents[s.str[2]]
    ELSE Exc("JSONDecodeError")

\* an except clause that would catch every exception
IsValueError_any(v) == IsExc(v)

\* the exceptions that except ValueError catches
IsValueError(v) == IsExc(v) /\ v.exc \in {"ValueError", "JSONDecodeError"}

\* the order in which a skills mapping lists its categories
SKILL_CATEGORIES == <<"tech", "soft">>

\* for value in skills.values(): skills += value.  A list is appended
\* element by element, a str character by character.
RECURSIVE FlattenSkills(_, _)
FlattenSkills(mapping, categories) ==
    IF categories = <<>> THEN <<>>
    ELSE LET c == Head(categories)
             value == mapping[c]
             items == IF IsList(value) THEN value.list
                      ELSE [i \in 1..Len(value.str) |-> Str(<<value.str[i]>>)]
         IN (IF c \in DOMAIN mapping THEN items ELSE <<>>)
            \o FlattenSkills(mapping, Tail(categories))

\* parser.py parse_json, the body: the session keys are assigned one by one,
\* so an exception leaves the keys assigned before it.  Once resume is
\* assigned, the experiences of the session are no part of it any more.
ParseJsonBody(txt_resume, ss, alias, env) ==
    LET loaded == json_loads(txt_resume)
        ss1 == Put(ss, "resume", loaded)
        ss2 == Put(ss1, "statement", loaded.statement)
        flat == FlattenSkills(loaded.skills, SKILL_CATEGORIES)
        ss3 == Put(Put(Put(Put(ss2, "skills", List(flat)),
                               "sorted_skills", List(flat)),
                           "choosen_skills", List(flat)),
                       "max_skills_number", IntV(Len(flat)))
        ss4 == Put(ss3, "experiences", loaded.experiences)
    IN IF IsExc(loaded) THEN Step(loaded, env, ss, alias)
       ELSE IF ~IsDict(loaded) THEN Step(Exc("TypeError"), env, ss1, "")
       ELSE IF "statement" \notin DOMAIN loaded THEN Step(Exc("KeyError"), env, ss1, "")
       ELSE IF "skills" \notin DOMAIN loaded THEN Step(Exc("KeyError"), env, ss2, "")
       ELSE IF ~IsDict(loaded.skills) THEN Step(Exc("AttributeError"), env, ss2, "")
       ELSE IF \E c \in DOMAIN loaded.skills :
                   ~IsList(loaded.skills[c]) /\ ~IsStr(loaded.skills[c])
            THEN Step(Exc("TypeError"), env, ss2, "")
       ELSE IF "experiences" \notin DOMAIN loaded THEN Step(Exc("KeyError"), env, ss3, "")
       ELSE Step(None, env, ss4, "experiences")

\* st.cache_data stores the None that the body b of parse_json returned
JsonStored(txt_resume, b) ==
    IF IsExc(b.ret) THEN b
    ELSE [b EXCEPT !.env = Store(b.env, "parse_json", txt_resume, None)]

\* parser.py parse_json (cached on txt_resume): a hit runs nothing
parse_json(txt_resume, ss, alias, env) ==
    IF IsCached(env, "parse_json", txt_resume) THEN Step(None, env, ss, alias)
    ELSE JsonStored(txt_resume, ParseJsonBody(txt_resume, ss, alias, env))

\* parser.py get_statement
get_statement(resume) ==
    LET statement == search_field(resume, <<"profile", "personal_statement",
                                            "personal_profile", "statement">>)
    IN IF statement # None THEN statement ELSE Str(<<>>)

\* parser.py get_skills
get_skills(resume) ==
    LET skills == search_field(resume, <<"skills", "Core Competencies",
                                         "core_competencies", "Competencies",
                                         "competencies">>)
    IN IF skills # None THEN skills ELSE List(<<>>)

\* parser.py get_experiences
get_experiences(resume) ==
    LET experiences == search_field(resume, <<"experience", "experiences",
                                              "work_experiences",
                                              "professional_experience">>)
    IN IF experiences # None THEN experiences ELSE Str(<<>>)

\* the key of resume that get_experiences returned the value of
ExperiencesKey(resume) ==
    LET k == KeysIn(resume, <<"experience", "experiences", "work_experiences",
                              "professional_experience">>)
    IN IF k = <<>> THEN "" ELSE Head(k)

\* len(v)
PyLen(v) ==
    IF IsList(v) THEN IntV(Len(v.list))
    ELSE IF IsStr(v) THEN IntV(Len(v.str))
    ELSE IF IsDict(v) THEN IntV(Cardinality(DOMAIN v))
    ELSE Exc("TypeError")

\* parser.py parse_api_json
parse_api_json(reply_json_str, ss, alias, env) ==
    LET loaded == json_loads(reply_json_str)
        ss1 == Put(ss, "resume", loaded)
        ss2 == Put(ss1, "statement", get_statement(loaded))
        skills == get_skills(loaded)
        ss3 == Put(Put(Put(ss2, "skills", skills), "sorted_skills", skills),
                   "choosen_skills", skills)
        ss4 == Put(ss3, "max_skills_number", PyLen(skills))
        ss5 == Put(ss4, "experiences", get_experiences(loaded))
    IN IF IsExc(loaded) THEN Step(loaded, env, ss, alias)
       ELSE IF ~IsDict(loaded) THEN Step(Exc("TypeError"), env, ss1, "")
       ELSE IF IsExc(PyLen(skills)) THEN Step(PyLen(skills), env, ss3, "")
       ELSE Step(None, env, ss5, ExperiencesKey(loaded))

\* parser.py analyse_resume (cached on the text; the temperature is always
\* 0.1): the transcription call
analyse_resume(txt_resume, env) ==
    LET fn == "analyse_resume"
        c == call_openai_api(env)
        reply == c.ret
        reply_json_str == extract_code(reply)
    IN IF IsCached(env, fn, txt_resume) THEN Replayed(env, fn, txt_resume)
       ELSE IF txt_resume = None \/ Len(txt_resume.str) = 0
       THEN Answered(env, fn, txt_resume, Exc("ValueError"))
       ELSE IF IsExc(reply) THEN Answered(c.env, fn, txt_resume, reply)
       ELSE Answered(c.env, fn, txt_resume, reply_json_str)

\* parser.py show_debug_info: reads four session keys
show_debug_info(ss) ==
    IF {"resume", "statement", "skills", "experiences"} \subseteq DOMAIN ss
    THEN None ELSE Exc("KeyError")

\* parser.py parse_resume, lines 463-464: a is analyse_resume as it
\* returned, after parse_json (j) raised a ValueError
ResumeAnalysed(j, a) ==
    IF IsExc(a.ret) THEN Step(a.ret, a.env, j.ss, j.alias)
    ELSE parse_api_json(a.ret, j.ss, j.alias, a.env)

\* parser.py parse_resume, lines 460-466: j is parse_json as it returned.
\* A ValueError leads to the transcription, any other exception is printed.
JsonParsed(txt_resume, j) ==
    IF ~IsExc(j.ret) THEN j
    ELSE IF IsValueError(j.ret)
    THEN ResumeAnalysed(j, analyse_resume(txt_resume, j.env))
    ELSE Step(None, j.env, j.ss, j.alias)

\* parser.py parse_resume, the try block with its two except clauses: the
\* exception left pending (None when there is none), and the state
ParseResumeTry(txt_resume, ss, alias, env) ==
    JsonParsed(txt_resume, parse_json(txt_resume, ss, alias, env))

\* parser.py parse_resume, lines 467-469: the finally block, after the try
\* block ended as t and parse_expereinces as e.  An exception raised in it
\* replaces the pending one.
ResumeFinally(t, e) ==
    [ret |-> IF IsExc(e.ret) THEN e.ret
             ELSE IF IsExc(show_debug_info(e.ss)) THEN show_debug_info(e.ss)
             ELSE t.ret,
     env |-> e.env, ss |-> e.ss, alias |-> e.alias,
     entered |-> t.ss.experiences, llm_try |-> t.env.llm,
     normalised |-> ~IsExc(e.ret)]

\* the try block ended as t: the finally block runs whatever happened
ResumeTried(t) == ResumeFinally(t, parse_expereinces(t.ss, t.alias, t.env))

\* parser.py parse_resume.  For the properties the result also tells what
\* parse_expereinces started from (entered) and how many completion calls
\* the try block made (llm_try).
parse_resume(txt_resume, ss, alias, env) ==
    ResumeTried(ParseResumeTry(txt_resume, ss, alias, env))

(***************************************************************************)
(* The session                                                             *)
(***************************************************************************)
CACHED_FUNCTIONS ==
    {"query_project_title", "query_project_description",
     "query_project_contributions", "parse_experience", "parse_json",
     "analyse_resume"}

EmptyCache == [fn \in CACHED_FUNCTIONS |-> {}]

\* core/initialisation.py initialise: the keys it sets when absent.
\* Booleans are TRUE/FALSE, the float 0.5 and the model name are atoms.
STATE_FIELDS ==
    {"btn_summary", "btn_analyse", "btn_estimate", "btn_generate_statement",
     "btn_sort_skills", "btn_generate_skills", "skills_number_changed",
     "messages_initalised"}

TEXT_FIELDS ==
    {"txt_jd", "txt_resume", "txt_skills", "statement", "dl_link", "letter",
     "company_role", "job_analysed"}

LIST_FIELDS ==
    {"new_statements", "new_skills", "experiences", "motivations", "skills",
     "sorted_skills", "choosen_skills", "background", "messages",
     "project_choices"}

INT_FIELDS ==
    {"max_skills_number", "prompt_tokens", "completion_tokens", "total_tokens"}

DefaultOf(field) ==
    IF field \in STATE_FIELDS THEN FALSE
    ELSE IF field \in TEXT_FIELDS THEN Str(<<>>)
    ELSE IF field \in LIST_FIELDS THEN List(<<>>)
    ELSE IF field \in INT_FIELDS THEN IntV(0)
    ELSE IF field = "temperature_message" THEN [float |-> "0.5"]
    ELSE IF field = "MODEL" THEN [model |-> "gpt-3.5-turbo"]
    ELSE IF field = "layouts" THEN List(<<[layout |-> "centered"], [layout |-> "wide"]>>)
    ELSE [layout |-> "centered"]

INITIAL_FIELDS ==
    STATE_FIELDS \cup TEXT_FIELDS \cup LIST_FIELDS \cup INT_FIELDS
    \cup {"temperature_message", "MODEL", "layouts", "layout"}

\* core/initialisation.py init_state over the fields of initialise: a key
\* that is present keeps its value
initialise(ss) ==
    [field \in DOMAIN ss \cup INITIAL_FIELDS |->
        IF field \in DOMAIN ss THEN ss[field] ELSE DefaultOf(field)]

\* the outcomes of a completion call
S_CodeAlpha == Str(<<"<","c","o","d","e",">","A","l","p","h","a","<","/","c","o","d","e",">">>)

S_Plain == Str(<<"B","e","t","a">>)

S_FencedDoc3 == Str(<<BQ, BQ, BQ, "{", "3", "}", BQ, BQ, BQ>>)

S_FencedDoc1 == Str(<<BQ, BQ, BQ, "{", "1", "}", BQ, BQ, BQ>>)

LLMOutcomes == {None, S_CodeAlpha, S_FencedDoc3}

\* completion calls one handler may make
MaxCalls == 3

\* what the user may put in the resume text area
S_FreeText == Str(<<"c","v">>)

Texts == {JsonText("1"), JsonText("2"), JsonText("3"), JsonText("5"),
          S_FreeText}

EnvOf(oracle) ==
    [cache |-> cache, uuid |-> uuid_next, oracle |-> oracle, llm |-> 0,
     log |-> <<>>, over |-> FALSE]

Idle == [op |-> "none"]

Init ==
    /\ session_state = initialise(<<>>)
    /\ cache = EmptyCache
    /\ uuid_next = 0
    /\ shared = ""
    /\ scenario = [texts |-> Texts, outcomes |-> LLMOutcomes]
    /\ last = Idle
    /\ probe = Idle

\* pages/2_Resume.py upload_resume, lines 60-68: the text area
EditResume ==
    \E t \in scenario.texts :
        /\ t # session_state.txt_resume
        /\ session_state' = Put(session_state, "txt_resume", t)
        /\ last' = [op |-> "EditResume"]
        /\ UNCHANGED <<cache, uuid_next, shared, scenario, probe>>

\* The runs of parse_resume on the session, one for each way the completion
\* service may answer: the answers are added to the oracle as the run asks
\* for them, up to MaxCalls.
RECURSIVE Analyses(_)
Analyses(oracle) ==
    UNION {IF ~r.env.over THEN {r}
           ELSE IF Len(oracle) = MaxCalls THEN {}
           ELSE UNION {Analyses(Append(oracle, o)) : o \in scenario.outcomes} :
           r \in {parse_resume(session_state.txt_resume, session_state, shared,
                               EnvOf(oracle))}}

\* the session keys that hold the resume and what was made of it
DOCUMENT_FIELDS == {"resume", "statement", "skills", "experiences"}

DocumentFields(ss) == [k \in DOCUMENT_FIELDS \cap DOMAIN ss |-> ss[k]]

\* pages/2_Resume.py upload_resume, lines 74-77: the Analyse button.
\* btn_analyse is set when parse_resume returns; an exception ends the run
\* of the page with the session as parse_resume left it.  For the
\* properties, last tells whether the text was new to parse_json (fresh),
\* which of the functions that ask the completion service were entered
\* (asked), and what the session held before (before).
Analyse ==
    \E r \in Analyses(<<>>) :
        /\ r.env.uuid <= MaxUuid
        /\ session_state' = IF IsExc(r.ret) THEN r.ss
                            ELSE Put(r.ss, "btn_analyse", TRUE)
        /\ cache' = r.env.cache
        /\ uuid_next' = r.env.uuid
        /\ shared' = r.alias
        /\ last' = [op |-> "Analyse", ret |-> r.ret, llm |-> r.env.llm,
                    entered |-> r.entered, llm_try |-> r.llm_try,
                    normalised |-> r.normalised,
                    asked |-> {r.env.log[i].fn : i \in DOMAIN r.env.log},
                    before |-> DocumentFields(session_state),
                    fresh |-> ~IsCached(EnvOf(<<>>), "parse_json",
                                        session_state.txt_resume)]
        /\ UNCHANGED <<scenario, probe>>

Next == EditResume \/ Analyse

Spec == Init /\ [][Next]_vars

(***************************************************************************)
(* search_field and get_skills applied on their own                        *)
(***************************************************************************)
\* longest candidate list tried
MaxCandidates == 3

FieldKeys ==
    {"skills", "Core Competencies", "Core_Competencies", "core_competencies",
     "competencies"}

FieldCandidates == {"skills", "Core Competencies", "core_competencies", "absent"}

\* the value an object of the inputs holds under key k, one per key
ValueAt(k) ==
    CASE k = "skills" -> List(<<S_Python, S_SQL>>)
      [] k = "Core Competencies" -> List(<<S_Python>>)
      [] k = "Core_Competencies" -> List(<<Str(<<"x">>)>>)
      [] k = "core_competencies" -> List(<<S_SQL>>)
      [] k = "competencies" -> List(<<>>)

\* skills told as one string
S_PythonGoRust ==
    Str(<<"P","y","t","h","o","n",","," ","G","o",","," ","R","u","s","t">>)

S_PythonGoRustMixed ==
    Str(<<"P","y","t","h","o","n",";"," ","G","o",","," ","R","u","s","t">>)

SkillStrings == {S_PythonGoRust, S_PythonGoRustMixed}

FieldObjects ==
    {[k \in K |-> ValueAt(k)] : K \in (SUBSET FieldKeys) \ {{}}}
    \cup {[skills |-> s] : s \in SkillStrings}
    \cup {[competencies |-> s, statement |-> S_Engineer] : s \in SkillStrings}

CandidateLists == UNION {[1..n -> FieldCandidates] : n \in 0..MaxCandidates}

NoScenario == [texts |-> {}, outcomes |-> {}]

InitField ==
    /\ session_state = initialise(<<>>)
    /\ cache = EmptyCache
    /\ uuid_next = 0
    /\ shared = ""
    /\ scenario = NoScenario
    /\ last = Idle
    /\ probe \in {[fn |-> f, obj |-> o, candidates |-> c, done |-> FALSE, ret |-> None] :
                    f \in {"search_field"}, o \in FieldObjects, c \in CandidateLists}
                 \cup
                 {[fn |-> f, obj |-> o, candidates |-> <<>>, done |-> FALSE, ret |-> None] :
                    f \in {"get_skills"}, o \in FieldObjects}

SearchField ==
    /\ probe.fn = "search_field"
    /\ ~probe.done
    /\ probe' = [probe EXCEPT !.done = TRUE,
                              !.ret = search_field(probe.obj, probe.candidates)]
    /\ UNCHANGED <<session_state, cache, uuid_next, shared, scenario, last>>

GetSkills ==
    /\ probe.fn = "get_skills"
    /\ ~probe.done
    /\ probe' = [probe EXCEPT !.done = TRUE, !.ret = get_skills(probe.obj)]
    /\ UNCHANGED <<session_state, cache, uuid_next, shared, scenario, last>>

NextField == SearchField \/ GetSkills

SpecField == InitField /\ [][NextField]_vars

Searched == probe.fn = "search_field" /\ probe.done

\* C8: search_field(obj, candidates) returns obj[c] for the first c, in the
\* order of candidates, that is a key of obj, and None when no candidate is
\* a key of obj.
ThmSearchFieldFirstCandidate ==
    Searched =>
        LET c == probe.candidates
            obj == probe.obj
        IN /\ \A i \in 1..Len(c) :
                (c[i] \in DOMAIN obj /\ \A j \in 1..(i - 1) : c[j] \notin DOMAIN obj)
                    => probe.ret = obj[c[i]]
           /\ (\A i \in 1..Len(c) : c[i] \notin DOMAIN obj) => probe.ret = None

\* search_field has picked the second candidate although a later, different
\* candidate is a key too
WitSearchFieldFirstCandidate ==
    /\ Searched
    /\ Len(probe.candidates) = 3
    /\ probe.candidates[1] \notin DOMAIN probe.obj
    /\ probe.candidates[2] \in DOMAIN probe.obj
    /\ probe.candidates[3] \in DOMAIN probe.obj
    /\ probe.candidates[3] # probe.candidates[2]
    /\ probe.ret = probe.obj[probe.candidates[2]]
    /\ probe.ret # probe.obj[probe.candidates[3]]

\* the case/separator variants of a candidate: the spellings that agree with
\* it once case is folded and '_' is read as ' '
Folded(k) ==
    CASE k \in {"Core Competencies", "Core_Competencies", "core_competencies"}
            -> "core competencies"
      [] OTHER -> k

IsVariant(k, c) == Folded(k) = Folded(c)

TheVariantExample ==
    /\ probe.obj = [k \in {"Core_Competencies"} |-> List(<<Str(<<"x">>)>>)]
    /\ probe.candidates = <<"skills", "Core Competencies">>

S_Alpha == Str(<<"A","l","p","h","a">>)

S_ProjectAlpha == Str(<<"P","r","o","j","e","c","t",":"," ","A","l","p","h","a">>)

S_QuotedAlpha == Str(<<"\"","A","l","p","h","a","\"">>)

ProjectValues == {S_Alpha, S_ProjectAlpha, S_QuotedAlpha, S_Plain}

PROJECT_TEXT_KEYS == {"title", "project", "description", "project_description"}

RawProjects ==
    UNION {
        {v, Put(v, "contributions", List(<<S_DidA, S_DidB>>))} :
            v \in UNION {[K -> ProjectValues] : K \in (SUBSET PROJECT_TEXT_KEYS) \ {{}}}}

ProjectOutcomes == {None, Exc("HTTPError"), S_CodeAlpha, S_Plain}

InitProject ==
    /\ session_state = initialise(<<>>)
    /\ cache = EmptyCache
    /\ uuid_next = 0
    /\ shared = ""
    /\ scenario = [texts |-> {}, outcomes |-> ProjectOutcomes]
    /\ last = Idle
    /\ probe \in {[fn |-> "parse_project", raw |-> raw, stage |-> "input",
                   ret |-> None, llm |-> 0, log |-> <<>>] : raw \in RawProjects}

\* the runs of parse_project on raw, one for each way the completion service
\* may answer
RECURSIVE ProjectRuns(_, _)
ProjectRuns(raw, oracle) ==
    UNION {IF ~r.env.over THEN {r}
           ELSE IF Len(oracle) = MaxCalls THEN {}
           ELSE UNION {ProjectRuns(raw, Append(oracle, o)) : o \in scenario.outcomes} :
           r \in {parse_project(raw, EnvOf(oracle))}}

IsProject(v) == DOMAIN v = {"uuid", "title", "description", "contributions"}

ParseProject ==
    /\ probe.fn = "parse_project"
    /\ probe.stage = "input"
    /\ \E r \in ProjectRuns(probe.raw, <<>>) :
          /\ probe' = [probe EXCEPT !.stage = "parsed", !.ret = r.ret,
                                    !.llm = r.env.llm, !.log = r.env.log]
          /\ cache' = r.env.cache
          /\ uuid_next' = r.env.uuid
    /\ UNCHANGED <<session_state, shared, scenario, last>>

\* parse_project applied to the Project the first application returned
ParseProjectAgain ==
    /\ probe.fn = "parse_project"
    /\ probe.stage = "parsed"
    /\ IsProject(probe.ret)
    /\ \E r \in ProjectRuns(probe.ret, <<>>) :
          /\ probe' = [probe EXCEPT !.stage = "reparsed", !.raw = probe.ret,
                                    !.ret = r.ret, !.llm = r.env.llm,
                                    !.log = r.env.log]
          /\ cache' = r.env.cache
          /\ uuid_next' = r.env.uuid
    /\ UNCHANGED <<session_state, shared, scenario, last>>

NextProject == ParseProject \/ ParseProjectAgain

SpecProject == InitProject /\ [][NextProject]_vars

(***************************************************************************)
(* Properties of parse_project                                             *)
(***************************************************************************)
Parsed == probe.fn = "parse_project" /\ probe.stage \in {"parsed", "reparsed"}

\* C2: after parse_project has returned a Project, its description never
\* equals its title.
CexDescriptionNeverTitle ==
    (Parsed /\ IsProject(probe.ret)) =>
        probe.ret.description # probe.ret.title

\* the value at the first key of order that raw has, None when it has none
RECURSIVE ByPriority(_, _)
ByPriority(raw, order) ==
    IF order = <<>> THEN None
    ELSE IF Head(order) \in DOMAIN raw THEN raw[Head(order)]
    ELSE ByPriority(raw, Tail(order))

\* parse_project took t for the title of the raw project: t is what the
\* title query was asked about when the fallback ran, and what the clean-up
\* turned into the Project's title when it did not
TitleResolvedAs(t) ==
    IF probe.log # <<>> /\ probe.log[1].fn = "query_project_title"
    THEN probe.log[1].key = t
    ELSE IsProject(probe.ret) =>
            /\ IsStr(t)
            /\ probe.ret.title = CleanTitle(t.str)

Conflated(raw) ==
    /\ DOMAIN raw \cap PROJECT_TEXT_KEYS = {"title", "description"}
    /\ raw.title = raw.description

\* C4 as stated: on a raw project whose description equals its title the
\* fallback is invoked exactly twice, title query first, then the
\* description query with the title it returned.
CexFallbackExactlyTwice ==
    (Parsed /\ Conflated(probe.raw)) =>
        /\ Len(probe.log) = 2
        /\ probe.log[1].fn = "query_project_title"
        /\ probe.log[2].fn = "query_project_description"
        /\ probe.log[2].key.title = probe.log[1].ret

\* C4: on a raw project whose description equals its title the title query
\* runs first, on that text; the description query follows exactly when the
\* title query returned, and receives the title it returned; a third query,
\* for the contributions, follows exactly when both returned, the clean-up
\* succeeded and the raw project has no contributions.
ThmFallbackOrder ==
    (Parsed /\ Conflated(probe.raw)) =>
        LET log == probe.log
            n == Len(log)
        IN /\ n \in 1..3
           /\ log[1].fn = "query_project_title"
           /\ log[1].key = probe.raw.title
           /\ (n = 1) = IsExc(log[1].ret)
           /\ n >= 2 =>
                /\ log[2].fn = "query_project_description"
                /\ log[2].key.title = log[1].ret
                /\ log[2].key.description = probe.raw.description
           /\ n = 3 =>
                /\ log[3].fn = "query_project_contributions"
                /\ ~IsExc(log[2].ret)
                /\ "contributions" \notin DOMAIN probe.raw
           /\ IsProject(probe.ret) =>
                (n = 2) = ("contributions" \in DOMAIN probe.raw)
           /\ probe.llm <= n

WitFallbackOrder ==
    /\ Parsed
    /\ probe.raw = [title |-> S_Alpha, description |-> S_Alpha]
    /\ Len(probe.log) = 3
    /\ probe.llm = 3
    /\ IsProject(probe.ret)

\* C6: parse_project applied to a normalized Project whose description
\* differs from its title changes neither uuid, title nor description.
CexProjectIdempotent ==
    (/\ probe.fn = "parse_project"
     /\ probe.stage = "reparsed"
     /\ probe.raw.description # probe.raw.title) =>
        /\ IsProject(probe.ret)
        /\ probe.ret.uuid = probe.raw.uuid
        /\ probe.ret.title = probe.raw.title
        /\ probe.ret.description = probe.raw.description

(***************************************************************************)
(* parse_experience on its own: SpecExperience applies it to one raw       *)
(* experience, and once more to the same mapping (a cache hit when the     *)
(* first application returned).                                            *)
(***************************************************************************)
Mar2021 == [year |-> IntV(2021), month |-> IntV(3)]

S_2020 == Str(<<"2","0","2","0">>)

S_2022 == Str(<<"2","0","2","2">>)

\* the ways a raw experience tells its dates
RawDates ==
    {[start |-> s, end |-> e] : s \in {Jan2020, Mar2021}, e \in {Jun2022, Mar2021}}
    \cup {[start |-> s] : s \in {Jan2020, Mar2021}}
    \cup {[dates |-> S_2020], [start_date |-> S_2020, end_date |-> S_2022],
          [start_date |-> S_2020], [job_title |-> S_Dev]}

\* what a raw experience says about its projects: nothing, its own
\* description, or a projects list
RawProjectParts ==
    {[company |-> S_Acme],
     [description |-> S_BuiltX],
     [description |-> S_BuiltX, contributions |-> List(<<S_DidA>>)],
     [projects |-> List(<<>>)],
     [projects |-> List(<<ProjectNamedX>>)],
     [projects |-> List(<<ProjectX>>)],
     [projects |-> List(<<ProjectNamedX, ProjectX>>)]}

\* the union of two mappings with disjoint keys
Merge(a, b) == [k \in DOMAIN a \cup DOMAIN b |-> IF k \in DOMAIN a THEN a[k] ELSE b[k]]

RawExperiences ==
    {Merge([title |-> S_Dev, company |-> S_Acme], Merge(d, p)) :
        d \in RawDates, p \in RawProjectParts}

InitExperience ==
    /\ session_state = initialise(<<>>)
    /\ cache = EmptyCache
    /\ uuid_next = 0
    /\ shared = ""
    /\ scenario = [texts |-> {}, outcomes |-> ProjectOutcomes]
    /\ last = Idle
    /\ probe \in {[fn |-> "parse_experience", raw |-> raw, stage |-> "input",
                   ret |-> None, llm |-> 0, log |-> <<>>] : raw \in RawExperiences}

\* the runs of parse_experience on raw, one for each way the completion
\* service may answer
RECURSIVE ExperienceRuns(_, _)
ExperienceRuns(raw, oracle) ==
    UNION {IF ~r.env.over THEN {r}
           ELSE IF Len(oracle) = MaxCalls THEN {}
           ELSE UNION {ExperienceRuns(raw, Append(oracle, o)) : o \in scenario.outcomes} :
           r \in {parse_experience(raw, EnvOf(oracle))}}

ParseExperience ==
    /\ probe.fn = "parse_experience"
    /\ probe.stage = "input"
    /\ \E r \in ExperienceRuns(probe.raw, <<>>) :
          /\ probe' = [probe EXCEPT !.stage = "parsed", !.ret = r.ret,
                                    !.llm = r.env.llm, !.log = r.env.log]
          /\ cache' = r.env.cache
          /\ uuid_next' = r.env.uuid
    /\ UNCHANGED <<session_state, shared, scenario, last>>

\* parse_experience applied once more to a mapping equal to the first
\* argument
ParseExperienceAgain ==
    /\ probe.fn = "parse_experience"
    /\ probe.stage = "parsed"
    /\ \E r \in ExperienceRuns(probe.raw, <<>>) :
          /\ probe' = [probe EXCEPT !.stage = "reparsed", !.ret = r.ret,
                                    !.llm = r.env.llm, !.log = r.env.log]
          /\ cache' = r.env.cache
          /\ uuid_next' = r.env.uuid
    /\ UNCHANGED <<session_state, shared, scenario, last>>

NextExperience == ParseExperience \/ ParseExperienceAgain

SpecExperience == InitExperience /\ [][NextExperience]_vars

(***************************************************************************)
(* Properties of parse_experience                                          *)
(***************************************************************************)
ExperienceProbed ==
    probe.fn = "parse_experience" /\ probe.stage \in {"parsed", "reparsed"}

IsExperience(v) == DOMAIN v = {"title", "company", "date_range", "projects"}

\* C3: after parse_experience every Experience has at least one Project,
\* whether the raw experience has no projects key or a projects list of any
\* length.
CexAtLeastOneProject ==
    (ExperienceProbed /\ IsExperience(probe.ret)) =>
        Len(probe.ret.projects.list) >= 1

\* the month abbreviation and the year of a structured date
MonthYear(d) == MONTH_ABBR[d.month.int] \o <<" ">> \o Decimal(d.year.int)

S_Present == <<"P","r","e","s","e","n","t">>

\* C10: a raw experience with a structured start and no end yields the start
\* followed by ' - Present'; with start and end it yields the two dates
\* joined by ' - '.  Stated for the raw experiences whose projects need no
\* query.
CexDateRange ==
    (/\ ExperienceProbed
     /\ "start" \in DOMAIN probe.raw
     /\ probe.log = <<>>) =>
        /\ IsExperience(probe.ret)
        /\ probe.ret.date_range =
              Str(MonthYear(probe.raw.start) \o <<" ", "-", " ">> \o
                  (IF "end" \in DOMAIN probe.raw THEN MonthYear(probe.raw["end"])
                   ELSE S_Present))

(***************************************************************************)
(* Properties of the Analyse action                                        *)
(***************************************************************************)
Analysed == last.op = "Analyse"

\* the text of the session is the JSON of a document of the model
TextIsDocument ==
    /\ IsJsonText(session_state.txt_resume)
    /\ session_state.txt_resume.str[2] \in DOMAIN Documents

TheDocument == Documents[session_state.txt_resume.str[2]]

\* every experience of doc has title, company, structured start and end
\* dates and a list of projects, each of which satisfies Shape
WellFormed(doc, Shape(_)) ==
    /\ "experiences" \in DOMAIN doc
    /\ \A i \in 1..Len(doc.experiences.list) :
          LET exp == doc.experiences.list[i]
          IN /\ DOMAIN exp = {"title", "company", "start", "end", "projects"}
             /\ \A j \in 1..Len(exp.projects.list) : Shape(exp.projects.list[j])

\* a project with a title, a description different from it and contributions
TitledProject(p) ==
    /\ DOMAIN p = {"title", "description", "contributions"}
    /\ p.description # p.title

\* a project named under project, with a description different from the
\* name and contributions
NamedProject(p) ==
    /\ DOMAIN p = {"project", "description", "contributions"}
    /\ p.description # p.project

\* Analyse returned, made no completion call, and the session holds the
\* experiences of doc, each project with the contributions of the source
AssembledWithoutLLM(doc) ==
    /\ ~IsExc(last.ret)
    /\ session_state.btn_analyse = TRUE
    /\ last.llm = 0
    /\ IsList(session_state.experiences)
    /\ Len(session_state.experiences.list) = Len(doc.experiences.list)
    /\ \A i \in 1..Len(doc.experiences.list) :
          LET src == doc.experiences.list[i].projects.list
              out == session_state.experiences.list[i].projects.list
          IN /\ Len(out) = Len(src)
             /\ \A j \in 1..Len(src) : out[j].contributions = src[j].contributions

EnteredNormalised ==
    /\ Analysed
    /\ IsList(last.entered)
    /\ last.entered.list # <<>>
    /\ \A i \in 1..Len(last.entered.list) : "uuid" \in DOMAIN last.entered.list[i]

\* C5: parse_expereinces run over experiences that already carry a uuid
\* makes no completion call and leaves every experience, with its uuid and
\* its projects, as it was.
ThmRenormaliseIsNoOp ==
    EnteredNormalised =>
        /\ last.normalised
        /\ last.llm = last.llm_try
        /\ session_state.experiences = last.entered

WitRenormaliseIsNoOp ==
    /\ EnteredNormalised
    /\ last.normalised
    /\ session_state.experiences = last.entered
    /\ "uuid" \in DOMAIN last.entered.list[1].projects.list[1]

(***************************************************************************)
(* Fallback queries without a usable answer                                *)
(***************************************************************************)
\* the query of log entry e got no usable text: no pattern matched the reply
\* (the title or description query returned None, the contributions query
\* an empty list), or the completion call returned None, on which
\* extract_code raised TypeError
NoUsableText(e) ==
    \/ e.ret = None
    \/ e.ret = Exc("TypeError")
    \/ (e.fn = "query_project_contributions" /\ e.ret = List(<<>>))

\* C11: when a fallback query of parse_project gets no usable text,
\* parse_project still returns a Project, and no query is issued twice.
CexNoUsableTextTolerated ==
    (Parsed /\ \E i \in 1..Len(probe.log) : NoUsableText(probe.log[i])) =>
        /\ IsProject(probe.ret)
        /\ \A i, j \in 1..Len(probe.log) :
              i # j => probe.log[i].fn # probe.log[j].fn

(***************************************************************************)
(* The transcription path of parse_resume                                  *)
(***************************************************************************)
\* the Analyse action ended with the decoding error of the transcription
\* reply: parse_json caught its own, and nothing else decodes JSON
ReplyUndecodable == Analysed /\ last.ret = Exc("JSONDecodeError")

\* C12: when the text is not JSON and the transcription reply does not
\* decode either, the Analyse action surfaces the failure, asks for the
\* transcription at most once, and makes no normalisation step: no fallback
\* query is issued and the experiences of the session stay as they were.
CexHaltsOnUndecodableReply ==
    ReplyUndecodable =>
        /\ last.llm_try <= 1
        /\ last.llm = last.llm_try
        /\ session_state.experiences = last.entered

\* the top-level shape parse_json reads: statement, a skills mapping,
\* experiences
ExpectedShape(doc) ==
    /\ IsDict(doc)
    /\ {"statement", "skills", "experiences"} \subseteq DOMAIN doc
    /\ IsDict(doc.skills)

\* the text of the Analyse action is JSON of the expected shape
TextHasExpectedShape ==
    /\ IsJsonText(session_state.txt_resume)
    /\ ExpectedShape(json_loads(session_state.txt_resume))

\* the Analyse action entered analyse_resume
Transcribed == "analyse_resume" \in last.asked

\* C13 as stated: parse_resume skips analyse_resume exactly when the text is
\* JSON of the expected shape, and enters it in every other case.
CexTranscribedUnlessExpectedShape ==
    Analysed => (Transcribed <=> ~TextHasExpectedShape)

\* C13: parse_resume enters analyse_resume exactly when the text is not
\* valid JSON; JSON of another shape is not transcribed (its error is printed).
ThmTranscribedUnlessJson ==
    Analysed => (Transcribed <=> ~IsJsonText(session_state.txt_resume))

\* a JSON text of another shape was analysed without a transcription
WitTranscribedUnlessJson ==
    /\ Analysed
    /\ IsJsonText(session_state.txt_resume)
    /\ ~TextHasExpectedShape
    /\ ~Transcribed
    /\ last.llm_try = 0

(***************************************************************************)
(* core/resume.py: the versions of a statement, a description and the      *)
(* contributions, and the choice among them.  The functions read the       *)
(* session ss.                                                             *)
(***************************************************************************)
\* re.findall(r'open(.*?)close', s, flags=re.DOTALL): the groups
RECURSIVE AllGroups(_, _, _)
AllGroups(s, open, close) ==
    LET from(p) == {e \in (p + Len(open))..(Len(s) + 1) : OccursAt(s, close, e)}
        starts == {p \in 1..Len(s) : OccursAt(s, open, p) /\ from(p) # {}}
        p == Min(starts)
        e == Min(from(p))
    IN IF starts = {} THEN <<>>
       ELSE <<Str(SubSeq(s, p + Len(open), e - 1))>>
            \o AllGroups(SubSeq(s, e + Len(close), Len(s)), open, close)

LI_OPEN == <<"<","l","i",">">>

LI_CLOSE == <<"<","/","l","i",">">>

\* extract.py extract_html_list
extract_html_list(content) ==
    IF ~IsStr(content) THEN Exc("TypeError")
    ELSE IF AllGroups(content.str, LI_OPEN, LI_CLOSE) # <<>>
    THEN List(AllGroups(content.str, LI_OPEN, LI_CLOSE))
    ELSE None

\* the positions of s where the word version (in either case of its first
\* letter) is followed by a space and a digit
VersionAt(s) ==
    {i \in 1..Len(s) :
        /\ \/ OccursAt(s, <<"V","e","r","s","i","o","n"," ">>, i)
           \/ OccursAt(s, <<"v","e","r","s","i","o","n"," ">>, i)
        /\ i + 8 <= Len(s)
        /\ \E d \in 1..10 : s[i + 8] = DIGITS[d]}

\* the digits of s from position i on
RECURSIVE DigitsFrom(_, _)
DigitsFrom(s, i) ==
    IF i <= Len(s) /\ (\E d \in 1..10 : s[i] = DIGITS[d])
    THEN <<s[i]>> \o DigitsFrom(s, i + 1)
    ELSE <<>>

\* extract.py extract_version_number: the number that follows the word
\* version, as a str; None when the text names no version
extract_version_number(content) ==
    IF ~IsStr(content) THEN Exc("TypeError")
    ELSE IF VersionAt(content.str) = {} THEN None
    ELSE Str(DigitsFrom(content.str, Min(VersionAt(content.str)) + 8))

\* int(s) for a str of decimal digits
RECURSIVE PyInt(_)
PyInt(digits) ==
    IF digits = <<>> THEN 0
    ELSE 10 * PyInt(SubSeq(digits, 1, Len(digits) - 1))
         + (CHOOSE d \in 0..9 : DIGITS[d + 1] = digits[Len(digits)])

\* list[index] for a Python index: a negative index counts from the end
PyItem(list, index) ==
    IF ~IsList(list) THEN Exc("TypeError")
    ELSE IF 0 <= index /\ index < Len(list.list) THEN list.list[index + 1]
    ELSE IF index < 0 /\ -index <= Len(list.list)
    THEN list.list[Len(list.list) + index + 1]
    ELSE Exc("IndexError")

\* value.strip()
PyStrip(value) ==
    IF IsExc(value) THEN value
    ELSE IF IsStr(value) THEN Str(Strip(value.str))
    ELSE Exc("AttributeError")

\* the session key prefix + project['uuid']
FieldKey(prefix, project) == prefix \o ToString(project.uuid.uuid)

\* core/resume.py choose_statement
choose_statement(ss) ==
    IF "statement_choice" \notin DOMAIN ss THEN ss.statement
    ELSE IF ss.statement_choice.int - 1 = -1 THEN ss.statement
    ELSE PyItem(ss.new_statements, ss.statement_choice.int - 1)

\* a slip: the version number used as the index
VersionIndex_no_offset(choice) ==
    IF ~IsStr(extract_version_number(choice)) THEN Exc("TypeError")
    ELSE IntV(PyInt(extract_version_number(choice).str))

\* int(extract_version_number(choice)) - 1, TypeError when no version is
\* named
VersionIndex(choice) ==
    IF ~IsStr(extract_version_number(choice)) THEN Exc("TypeError")
    ELSE IntV(PyInt(extract_version_number(choice).str) - 1)

\* core/resume.py choose_project_description
choose_project_description(project, ss) ==
    LET choice_key == FieldKey("description_choice_", project)
        choice_field == FieldKey("new_descriptions_", project)
        index == VersionIndex(ss[choice_key])
    IN IF ~({choice_key, choice_field} \subseteq DOMAIN ss)
       THEN project.description
       ELSE IF IsExc(index) THEN index
       ELSE IF index.int = -1 THEN project.description
       ELSE PyStrip(PyItem(ss[choice_field], index.int))

\* core/resume.py choose_contributions.  A list has no strip, so the
\* isinstance test never holds.
choose_contributions(project, ss) ==
    LET choice_key == FieldKey("contributions_choice_", project)
        choice_field == FieldKey("new_contributions_", project)
        index == VersionIndex(ss[choice_key])
        contributions == PyStrip(PyItem(ss[choice_field], index.int))
    IN IF ~({choice_key, choice_field} \subseteq DOMAIN ss)
       THEN project.contributions
       ELSE IF IsExc(index) THEN index
       ELSE IF index.int = -1 THEN project.contributions
       ELSE IF IsExc(contributions) THEN contributions
       ELSE extract_html_list(contributions)

\* An experience found for the export is [exp, at]: exp the dict handed out,
\* at the position in the experiences of the session of the object it is, 0
\* when it is an object of its own.

\* a slip: the experience of the session itself, not a copy
find_experience_no_copy(experiences, exp_uuid) ==
    LET found == {i \in 1..Len(experiences.list) :
                     experiences.list[i].uuid = exp_uuid}
    IN IF found = {} THEN None
       ELSE [exp |-> experiences.list[Min(found)], at |-> Min(found)]

\* core/resume.py find_experience: a deep copy of the first experience with
\* the uuid, None when there is none
find_experience(experiences, exp_uuid) ==
    LET found == {i \in 1..Len(experiences.list) :
                     experiences.list[i].uuid = exp_uuid}
    IN IF found = {} THEN None
       ELSE [exp |-> experiences.list[Min(found)], at |-> 0]

\* core/resume.py get_chosen_experiences, lines 228-236: the OrderedDict
\* experiences as the sequence found of [key, exp, at], in insertion order;
\* ret is the exception that ended the loop, None when none did
RECURSIVE ExperiencesChosen(_, _, _, _)
ExperiencesChosen(choices, options, ss, found) ==
    IF choices = <<>> THEN [ret |-> None, found |-> found]
    ELSE LET o == options[Head(choices)]
             known == {i \in 1..Len(found) : found[i].key = o.exp_uuid}
             f == find_experience(ss.experiences, o.exp_uuid)
         IN IF known # {}
            THEN ExperiencesChosen(Tail(choices), options, ss,
                     [found EXCEPT ![Min(known)].exp.chosen_projects =
                         List(Append(@.list, o.proj_uuid))])
            ELSE IF f = None
            THEN [ret |-> Exc("TypeError"), found |-> found]
            ELSE ExperiencesChosen(Tail(choices), options, ss,
                     Append(found,
                            [key |-> o.exp_uuid, at |-> f.at,
                             exp |-> Put(f.exp, "chosen_projects",
                                         List(<<o.proj_uuid>>))]))

\* list.remove(x): the first element equal to x goes
RemoveFirst(list, x) ==
    LET at == Min({i \in 1..Len(list) : list[i] = x})
    IN SubSeq(list, 1, at - 1) \o SubSeq(list, at + 1, Len(list))

\* core/resume.py get_chosen_experiences, lines 239-241: the loop over
\* exp['projects'] that removes from the list it iterates; i is the position
\* the iterator is at
RECURSIVE ProjectsKept(_, _, _)
ProjectsKept(projects, i, chosen_projects) ==
    IF i > Len(projects) THEN projects
    ELSE IF \E j \in 1..Len(chosen_projects) :
                chosen_projects[j] = projects[i].uuid
    THEN ProjectsKept(projects, i + 1, chosen_projects)
    ELSE ProjectsKept(RemoveFirst(projects, projects[i]), i + 1,
                      chosen_projects)

\* core/resume.py get_chosen_experiences, lines 246-248: the loop over the
\* projects kept; an exception ends it with the projects as they are
RECURSIVE ProjectsExported(_, _, _)
ProjectsExported(projects, i, ss) ==
    IF i > Len(projects) THEN [ret |-> None, projects |-> projects]
    ELSE LET description == choose_project_description(projects[i], ss)
             described == Put(projects[i], "description", description)
             contributions == choose_contributions(described, ss)
         IN IF IsExc(description)
            THEN [ret |-> description, projects |-> projects]
            ELSE IF IsExc(contributions)
            THEN [ret |-> contributions,
                  projects |-> [projects EXCEPT ![i] = described]]
            ELSE ProjectsExported(
                     [projects EXCEPT ![i] =
                         Put(described, "contributions", contributions)],
                     i + 1, ss)

\* the session after the export worked on found: an experience that is an
\* object of the session is changed in the session too
RECURSIVE SessionAfter(_, _, _)
SessionAfter(ss, found, i) ==
    IF i > Len(found) THEN ss
    ELSE IF found[i].at = 0 THEN SessionAfter(ss, found, i + 1)
    ELSE SessionAfter(
             Put(ss, "experiences",
                 List([ss.experiences.list EXCEPT ![found[i].at] = found[i].exp])),
             found, i + 1)

\* core/resume.py get_chosen_experiences, lines 237-251, for the experiences
\* found: each loop runs over all of them in turn; the second one ends at
\* the first exception
RECURSIVE ExportedFrom(_, _, _)
ExportedFrom(found, i, ss) ==
    IF i > Len(found) THEN [ret |-> None, found |-> found]
    ELSE LET e == ProjectsExported(found[i].exp.projects.list, 1, ss)
             done == [found EXCEPT ![i].exp.projects = List(e.projects)]
         IN IF IsExc(e.ret) THEN [ret |-> e.ret, found |-> done]
            ELSE ExportedFrom(done, i + 1, ss)

ExperiencesPruned(found) ==
    [i \in 1..Len(found) |->
        [found[i] EXCEPT !.exp.projects =
            List(ProjectsKept(@.list, 1, found[i].exp.chosen_projects.list))]]

\* core/resume.py get_chosen_experiences: [ret, ss], ret the list returned
\* or the exception raised, ss the session after the call
get_chosen_experiences(choices, options, ss) ==
    LET c == ExperiencesChosen(choices, options, ss, <<>>)
        e == ExportedFrom(ExperiencesPruned(c.found), 1, ss)
    IN IF IsExc(c.ret) THEN [ret |-> c.ret, ss |-> SessionAfter(ss, c.found, 1)]
       ELSE [ret |-> IF IsExc(e.ret) THEN e.ret
                     ELSE List([i \in 1..Len(e.found) |-> e.found[i].exp]),
             ss |-> SessionAfter(ss, e.found, 1)]

(***************************************************************************)
(* The pages that generate versions, choose among them and export          *)
(***************************************************************************)
S_BuiltY == Str(<<"B","u","i","l","t"," ","Y">>)

\* a description as the text area may leave it
S_BuiltXEdited == Str(<<"B","u","i","l","t"," ","X","\n">>)

S_Y == Str(<<"Y">>)

S_JanJun == Str(<<"J","a","n"," ","-"," ","J","u","n">>)

\* the session after the Analyse action: one experience with two projects
ChoiceExperiences ==
    List(<<[uuid |-> Uuid(3), title |-> S_Dev, company |-> S_Acme,
            date_range |-> S_JanJun,
            projects |-> List(<<[uuid |-> Uuid(1), title |-> S_X,
                                 description |-> S_BuiltX,
                                 contributions |-> List(<<S_DidA, S_DidB>>)],
                                [uuid |-> Uuid(2), title |-> S_Y,
                                 description |-> S_BuiltY,
                                 contributions |-> List(<<S_DidA>>)]>>)]>>)

\* the projects of the session, in order
SessionProjects(ss) ==
    LET RECURSIVE Of(_)
        Of(i) == IF i > Len(ss.experiences.list) THEN <<>>
                 ELSE ss.experiences.list[i].projects.list \o Of(i + 1)
    IN Of(1)

\* the versions a generation may produce: what extract_code made of the
\* replies
StatementVersions == <<Str(<<"S","1">>), Str(<<" ","S","2">>)>>

DescriptionVersions == <<Str(<<" ","D","1","\n">>), Str(<<"D","2">>)>>

ContributionsVersions ==
    <<Str(<<"<","l","i",">","A","<","/","l","i",">","\n",
            "<","l","i",">","B","<","/","l","i",">">>),
      Str(<<"C">>)>>

VersionsOf(kind) ==
    IF kind = "description" THEN DescriptionVersions ELSE ContributionsVersions

KINDS == {"description", "contributions"}

\* the prefix of the session key that holds the versions generated
VersionsField(kind) ==
    IF kind = "description" THEN "new_descriptions_" ELSE "new_contributions_"

\* 'Version ' + str(k)
VersionOption(k) == Str(<<"V","e","r","s","i","o","n"," ">> \o Decimal(k))

\* pages/5_Experiences.py init_project: init_state of the four keys
init_project(ss, project) ==
    LET keys == {FieldKey("generate_description_", project),
                 FieldKey("generate_contributions_", project),
                 FieldKey("new_descriptions_", project),
                 FieldKey("new_contributions_", project)}
    IN [k \in DOMAIN ss \cup keys |-> IF k \in DOMAIN ss THEN ss[k] ELSE FALSE]

RECURSIVE InitProjects(_, _)
InitProjects(ss, projects) ==
    IF projects = <<>> THEN ss
    ELSE InitProjects(init_project(ss, Head(projects)), Tail(projects))

\* the session once the resume is analysed and the Experiences page shown
ChoiceSession ==
    InitProjects(Put(Put(initialise(<<>>), "statement", S_Engineer),
                     "experiences", ChoiceExperiences),
                 ChoiceExperiences.list[1].projects.list)

InitChoice ==
    /\ session_state = ChoiceSession
    /\ cache = EmptyCache
    /\ uuid_next = 3
    /\ shared = ""
    /\ scenario = [texts |-> {}, outcomes |-> {}]
    /\ last = Idle
    /\ probe = Idle

\* the version the selectbox of a field shows: the choice stored, Version 0
\* when none is
ChoiceOf(ss, choice_key) ==
    IF choice_key \in DOMAIN ss THEN ss[choice_key] ELSE VersionOption(0)

\* pages/3_Statement.py edit_statement, lines 54-64: Generate statement
GenerateStatement ==
    /\ session_state' =
           Put(Put(Put(session_state, "statement_choice", IntV(0)),
                   "new_statements", List(StatementVersions)),
               "btn_generate_statement", TRUE)
    /\ last' = [op |-> "GenerateStatement"]
    /\ probe' = Idle
    /\ UNCHANGED <<cache, uuid_next, shared, scenario>>

\* pages/3_Statement.py edit_statement, lines 66-88: the selectbox
ChooseStatementVersion ==
    /\ session_state.btn_generate_statement
    /\ \E k \in 0..Len(session_state.new_statements.list) :
          /\ IntV(k) # session_state.statement_choice
          /\ session_state' = Put(session_state, "statement_choice", IntV(k))
          /\ last' = [op |-> "ChooseVersion", kind |-> "statement"]
    /\ probe' = Idle
    /\ UNCHANGED <<cache, uuid_next, shared, scenario>>

\* the session with the description of the project p (a position in the
\* first experience) set
WithDescription(ss, p, text) ==
    Put(ss, "experiences",
        List([ss.experiences.list EXCEPT
                 ![1].projects = List([@.list EXCEPT ![p].description = text])]))

\* pages/5_Experiences.py edit_description, lines 115-117: the text area
\* writes to the project of the session
EditDescription ==
    /\ \E p \in 1..Len(session_state.experiences.list[1].projects.list) :
          /\ session_state.experiences.list[1].projects.list[p].description
                 = S_BuiltX
          /\ session_state' = WithDescription(session_state, p, S_BuiltXEdited)
    /\ last' = [op |-> "EditDescription"]
    /\ probe' = Idle
    /\ UNCHANGED <<cache, uuid_next, shared, scenario>>

\* pages/5_Experiences.py edit_description, lines 131-163, and
\* edit_contribtions, lines 266-299: the Generate button, then the selectbox
\* as it stands
GenerateVersions ==
    /\ \E kind \in KINDS, project \in
              {SessionProjects(session_state)[i] :
                   i \in 1..Len(SessionProjects(session_state))} :
          LET field == FieldKey(VersionsField(kind), project)
              flag == FieldKey("generate_" \o kind \o "_", project)
              choice_key == FieldKey(kind \o "_choice_", project)
          IN /\ session_state' =
                    Put(Put(Put(session_state, flag, TRUE),
                            field, List(VersionsOf(kind))),
                        choice_key, ChoiceOf(session_state, choice_key))
             /\ last' = [op |-> "GenerateVersions", kind |-> kind]
    /\ probe' = Idle
    /\ UNCHANGED <<cache, uuid_next, shared, scenario>>

\* pages/5_Experiences.py edit_description, lines 160-163, and
\* edit_contribtions, lines 296-299: the user picks another option
ChooseVersion ==
    /\ \E kind \in KINDS, project \in
              {SessionProjects(session_state)[i] :
                   i \in 1..Len(SessionProjects(session_state))} :
          LET field == FieldKey(VersionsField(kind), project)
              flag == FieldKey("generate_" \o kind \o "_", project)
              choice_key == FieldKey(kind \o "_choice_", project)
          IN /\ session_state[flag] = TRUE
             /\ \E k \in 0..Len(session_state[field].list) :
                   /\ VersionOption(k) # session_state[choice_key]
                   /\ session_state' =
                          Put(session_state, choice_key, VersionOption(k))
                   /\ last' = [op |-> "ChooseVersion", kind |-> kind,
                               uuid |-> project.uuid]
    /\ probe' = Idle
    /\ UNCHANGED <<cache, uuid_next, shared, scenario>>

\* pages/6_Export_Resume.py export_docx, lines 297-303: the options, by
\* project title; a title met again keeps its place and takes the new value
OptionsOf(ss) ==
    LET projects == SessionProjects(ss)
        owner(i) == CHOOSE e \in 1..Len(ss.experiences.list) :
                        \E j \in 1..Len(ss.experiences.list[e].projects.list) :
                            ss.experiences.list[e].projects.list[j] = projects[i]
        titles == {projects[i].title : i \in 1..Len(projects)}
    IN [t \in titles |->
           LET i == Max({j \in 1..Len(projects) : projects[j].title = t})
           IN [proj_uuid |-> projects[i].uuid,
               exp_uuid |-> ss.experiences.list[owner(i)].uuid]]

\* the ways to select among the titles, each in the order of the options
RECURSIVE SelectionsOf(_)
SelectionsOf(titles) ==
    IF titles = <<>> THEN {<<>>}
    ELSE LET rest == SelectionsOf(Tail(titles))
         IN rest \cup {<<Head(titles)>> \o r : r \in rest}

\* core/resume.py choose_statement and get_chosen_experiences, applied to
\* the options of the export page and a selection among them; probe keeps
\* the session as it was before (before)
Export ==
    /\ \E choices \in SelectionsOf(
              [i \in 1..Len(SessionProjects(session_state)) |->
                  SessionProjects(session_state)[i].title]) :
          \E r \in {get_chosen_experiences(choices, OptionsOf(session_state),
                                           session_state)} :
             /\ choices # <<>>
             /\ session_state' = r.ss
             /\ probe' = [fn |-> "get_chosen_experiences", raw |-> choices,
                          ret |-> r.ret,
                          statement |-> choose_statement(session_state),
                          before |-> session_state]
    /\ last' = [op |-> "Export"]
    /\ UNCHANGED <<cache, uuid_next, shared, scenario>>

NextChoice ==
    \/ GenerateStatement
    \/ ChooseStatementVersion
    \/ EditDescription
    \/ GenerateVersions
    \/ ChooseVersion
    \/ Export

SpecChoice == InitChoice /\ [][NextChoice]_vars

(***************************************************************************)
(* Properties of the choice of a version                                   *)
(***************************************************************************)
\* the project of the session with the uuid
ProjectOf(ss, uuid) ==
    CHOOSE p \in {SessionProjects(ss)[i] : i \in 1..Len(SessionProjects(ss))} :
        p.uuid = uuid

\* the user has just gone back from another version to Version 0 of the
\* field kind (the selectbox only stores a choice that differs)
BackToVersionZero(kind) ==
    /\ last.op = "ChooseVersion"
    /\ last.kind = kind
    /\ IF kind = "statement" THEN session_state.statement_choice = IntV(0)
       ELSE session_state[FieldKey(kind \o "_choice_",
                                   ProjectOf(session_state, last.uuid))]
                = VersionOption(0)

\* C14: after a version k >= 1 was selected and then Version 0, the choose
\* function of the field returns exactly the original value.
ThmVersionZeroIsOriginal ==
    /\ BackToVersionZero("statement") =>
           choose_statement(session_state) = session_state.statement
    /\ BackToVersionZero("description") =>
           choose_project_description(ProjectOf(session_state, last.uuid),
                                      session_state)
               = ProjectOf(session_state, last.uuid).description
    /\ BackToVersionZero("contributions") =>
           choose_contributions(ProjectOf(session_state, last.uuid),
                                session_state)
               = ProjectOf(session_state, last.uuid).contributions

\* the description that ends with a newline is chosen again after another
\* version was
WitVersionZeroIsOriginal ==
    /\ BackToVersionZero("description")
    /\ ProjectOf(session_state, last.uuid).description = S_BuiltXEdited
    /\ choose_project_description(ProjectOf(session_state, last.uuid),
                                  session_state) = S_BuiltXEdited

\* the export ran get_chosen_experiences and the choose functions
Exported == last.op = "Export"

\* the session keys that hold the originals and the versions generated
VersionedKeys(ss) ==
    {"statement", "experiences", "new_statements"}
    \cup {FieldKey(VersionsField(kind), SessionProjects(ss)[i]) :
              kind \in KINDS, i \in 1..Len(SessionProjects(ss))}

\* C15: get_chosen_experiences and the choose functions it calls leave the
\* originals (statement, experiences) and the versions generated
\* (new_statements, new_descriptions_<uuid>, new_contributions_<uuid>) of the
\* session as they were.
ThmChoiceKeepsVersions ==
    Exported =>
        \A k \in VersionedKeys(probe.before) :
            /\ k \in DOMAIN session_state
            /\ session_state[k] = probe.before[k]

\* an export that left a project out and took a generated description for
\* the other one
WitChoiceKeepsVersions ==
    /\ Exported
    /\ IsList(probe.ret)
    /\ Len(probe.ret.list) = 1
    /\ Len(probe.ret.list[1].projects.list) = 1
    /\ Len(session_state.experiences.list[1].projects.list) = 2
    /\ \E i \in 1..2 :
          /\ session_state.experiences.list[1].projects.list[i].uuid
                 = probe.ret.list[1].projects.list[1].uuid
          /\ session_state.experiences.list[1].projects.list[i].description
                 # probe.ret.list[1].projects.list[1].description

(***************************************************************************)
(* The uuids of the session                                                *)
(***************************************************************************)
\* the positions <<i, p>> of the projects in the experiences of the session
\* that carry a uuid (p = 0 stands for the experience itself)
UuidPositions ==
    IF ~IsList(session_state.experiences) THEN {}
    ELSE LET exps == session_state.experiences.list
             normal == {i \in 1..Len(exps) :
                           {"uuid", "projects"} \subseteq DOMAIN exps[i]}
             projects(i) == IF IsList(exps[i].projects)
                            THEN 1..Len(exps[i].projects.list) ELSE {}
         IN UNION {{<<i, p>> : p \in {0} \cup projects(i)} : i \in normal}

\* the uuid at a position
UuidAt(x) ==
    IF x[2] = 0 THEN session_state.experiences.list[x[1]].uuid
    ELSE session_state.experiences.list[x[1]].projects.list[x[2]].uuid

\* C16: after any sequence of Analyse actions no two experiences of the
\* session share a uuid and no two projects share a uuid.
CexUuidsUnique ==
    \A x, y \in UuidPositions :
        (x # y /\ (x[2] = 0 <=> y[2] = 0)) => UuidAt(x) # UuidAt(y)

(***************************************************************************)
(* utils/web.py: the retry decorator, a call of the function it wraps step *)
(* by step.  probe is the frame of f_retry:                                *)
(*   tries, delay, backoff, max_delay   the arguments of retry             *)
(*   m_delay, num_tries                 the locals of f_retry              *)
(*   pc        "try" before a call of func, "sleep" in the except clause,  *)
(*             "done" once f_retry returned or raised                      *)
(*   outcomes  what the calls of func made so far ended with               *)
(*   waits     the time.sleep calls made so far, in seconds                *)
(*   ret       what f_retry returned or raised                             *)
(***************************************************************************)
\* the attempts of one call the model follows
MaxAttempts == 10

\* requests.exceptions: the classes that are a Timeout
TIMEOUTS == {"Timeout", "ConnectTimeout", "ReadTimeout"}

\* a clause that would catch every exception
Caught_any(exception, error) == IsExc(error)

\* except exception as error: error is an instance of the class
Caught(exception, error) ==
    /\ IsExc(error)
    /\ IF exception = "Timeout" THEN error.exc \in TIMEOUTS
       ELSE error.exc = exception

\* a back-off without the cap
NextDelay_uncapped(m_delay, backoff, max_delay) == m_delay * backoff

\* web.py line 39: min(m_delay * backoff, max_delay)
NextDelay(m_delay, backoff, max_delay) ==
    IF m_delay * backoff <= max_delay THEN m_delay * backoff ELSE max_delay

\* what a call of the wrapped function may end with: a reply, None, a
\* timeout, or another exception (raise_for_status, no connection)
FuncOutcomes ==
    {S_Plain, None, Exc("ReadTimeout"), Exc("ConnectTimeout"),
     Exc("HTTPError"), Exc("ConnectionError")}

\* gpt/api.py line 71: the policy of call_openai_api
API_RETRY == [exception |-> "Timeout", tries |-> 5, delay |-> 1,
              backoff |-> 2, max_delay |-> 120]

\* the policies of the model: the one of the API, and a single try
RetryPolicies == {API_RETRY, [API_RETRY EXCEPT !.tries = 1],
                  [API_RETRY EXCEPT !.delay = 3, !.max_delay = 20]}

\* web.py f_retry, lines 26-27: the call starts
InitRetry ==
    /\ session_state = initialise(<<>>)
    /\ cache = EmptyCache
    /\ uuid_next = 0
    /\ shared = ""
    /\ scenario = [texts |-> {}, outcomes |-> FuncOutcomes]
    /\ last = Idle
    /\ probe \in {[fn |-> "f_retry", policy |-> p, m_delay |-> p.delay,
                   num_tries |-> p.tries, pc |-> "try", outcomes |-> <<>>,
                   waits |-> <<>>, ret |-> None] : p \in RetryPolicies}

\* web.py f_retry, lines 28-33: a call of func within the loop; a value
\* returned ends f_retry, and so does an exception the clause does not catch
Attempt ==
    /\ probe.pc = "try"
    /\ probe.policy.tries > 1
    /\ Len(probe.outcomes) < MaxAttempts
    /\ \E o \in scenario.outcomes :
          probe' = IF Caught(probe.policy.exception, o)
                   THEN [probe EXCEPT !.outcomes = Append(@, o), !.pc = "sleep"]
                   ELSE [probe EXCEPT !.outcomes = Append(@, o), !.pc = "done",
                                      !.ret = o]
    /\ UNCHANGED <<session_state, cache, uuid_next, shared, scenario, last>>

\* web.py f_retry, lines 34-39: the sleep of the except clause, then the
\* locals are updated and the loop goes on
Sleep ==
    /\ probe.pc = "sleep"
    /\ probe' = [probe EXCEPT
                    !.waits = Append(@, probe.m_delay),
                    !.num_tries = @ - 1,
                    !.m_delay = NextDelay(@, probe.policy.backoff,
                                          probe.policy.max_delay),
                    !.pc = "try"]
    /\ UNCHANGED <<session_state, cache, uuid_next, shared, scenario, last>>

\* web.py f_retry, lines 40-41: the last attempt, after the loop
LastAttempt ==
    /\ probe.pc = "try"
    /\ ~(probe.policy.tries > 1)
    /\ \E o \in scenario.outcomes :
          probe' = [probe EXCEPT !.outcomes = Append(@, o), !.pc = "done",
                                 !.ret = o]
    /\ UNCHANGED <<session_state, cache, uuid_next, shared, scenario, last>>

NextRetry == Attempt \/ Sleep \/ LastAttempt

SpecRetry == InitRetry /\ [][NextRetry]_vars

(***************************************************************************)
(* Properties of the retry policy of call_openai_api                       *)
(***************************************************************************)
\* f_retry runs under the policy of call_openai_api
ApiPolicy == probe.fn = "f_retry" /\ probe.policy = API_RETRY

\* C17: under the policy of call_openai_api the call is retried a bounded
\* number of times, no more than 5, when every attempt times out.
CexRetriesBounded == ApiPolicy => Len(probe.waits) <= 5

\* C18: an exception that is not a timeout ends f_retry where it occurs: it
\* is the last outcome, it is what f_retry raises, and no wait follows it.
ThmOtherExceptionPropagates ==
    probe.fn = "f_retry" =>
        \A i \in 1..Len(probe.outcomes) :
            (IsExc(probe.outcomes[i]) /\ probe.outcomes[i].exc \notin TIMEOUTS) =>
                /\ i = Len(probe.outcomes)
                /\ probe.pc = "done"
                /\ probe.ret = probe.outcomes[i]
                /\ Len(probe.waits) = i - 1

\* the third attempt met an HTTP error after two timeouts
WitOtherExceptionPropagates ==
    /\ ApiPolicy
    /\ probe.pc = "done"
    /\ probe.ret = Exc("HTTPError")
    /\ Len(probe.outcomes) = 3
    /\ probe.waits = <<1, 2>>

\* C19: the k-th wait under the policy of call_openai_api is
\* min(2^(k-1), 120) seconds.
ThmWaitsDoubleToCap ==
    ApiPolicy =>
        \A k \in 1..Len(probe.waits) :
            probe.waits[k] = IF 2^(k - 1) <= 120 THEN 2^(k - 1) ELSE 120

\* the eighth wait is the first one the cap shortens
WitWaitsDoubleToCap ==
    /\ ApiPolicy
    /\ Len(probe.waits) >= 8
    /\ probe.waits[7] = 64
    /\ probe.waits[8] = 120

(***************************************************************************)
(* gpt/api.py: the body of call_openai_api, one request.  A message is the *)
(* dict of its keys with, for each value, the number of tokens it encodes  *)
(* to; a response is the exception of requests.post or raise_for_status,   *)
(* or the JSON object [usage, choices].                                    *)
(***************************************************************************)
MODEL_NAMES == {"gpt-3.5-turbo", "gpt-3.5-turbo-16k", "gpt-4", "gpt-4-32k"}

\* gpt/api.py MODELS: the context window of a model, in tokens
MODELS ==
    [model \in MODEL_NAMES |->
        CASE model = "gpt-3.5-turbo" -> 4096
          [] model = "gpt-3.5-turbo-16k" -> 16384
          [] model = "gpt-4" -> 8192
          [] model = "gpt-4-32k" -> 32768]

\* gpt/token.py num_tokens_from_messages: the models whose name contains
\* gpt-3.5-turbo count as gpt-3.5-turbo-0301, the others as gpt-4-0314
TokensPerMessage(model) ==
    IF model \in {"gpt-3.5-turbo", "gpt-3.5-turbo-16k"} THEN 4 ELSE 3

TokensPerName(model) ==
    IF model \in {"gpt-3.5-turbo", "gpt-3.5-turbo-16k"} THEN -1 ELSE 1

\* the tokens of one message: its values, and the adjustment for a name
MessageTokens(message, model) ==
    LET RECURSIVE Sum(_)
        Sum(keys) ==
            IF keys = {} THEN 0
            ELSE LET k == CHOOSE x \in keys : TRUE
                 IN message[k] + (IF k = "name" THEN TokensPerName(model) ELSE 0)
                    + Sum(keys \ {k})
    IN TokensPerMessage(model) + Sum(DOMAIN message)

\* gpt/token.py num_tokens_from_messages
RECURSIVE num_tokens_from_messages(_, _)
num_tokens_from_messages(messages, model) ==
    IF messages = <<>> THEN 3
    ELSE MessageTokens(Head(messages), model)
         + num_tokens_from_messages(Tail(messages), model)

\* a limit at the whole context window
TooLong_whole_window(num_tokens, model) == num_tokens > MODELS[model]

\* gpt/api.py line 92: num_tokens > MODELS[model]*0.9
TooLong(num_tokens, model) == 10 * num_tokens > 9 * MODELS[model]

USAGE_FIELDS == <<"prompt_tokens", "completion_tokens", "total_tokens">>

\* gpt/api.py lines 111-114: the usage of the response is added to the
\* counters of the session, field by field
RECURSIVE UsageAdded(_, _, _)
UsageAdded(ss, usage, fields) ==
    IF fields = <<>> THEN ss
    ELSE UsageAdded(
             IF Head(fields) \in DOMAIN usage
             THEN Put(ss, Head(fields),
                      IntV(ss[Head(fields)].int + usage[Head(fields)]))
             ELSE ss,
             usage, Tail(fields))

\* gpt/api.py lines 115-127: the replies of the choices; None at the first
\* choice cut for length, or when there is no choice
RepliesOf(choices) ==
    IF \E i \in 1..Len(choices) : choices[i].finish_reason = "length" THEN None
    ELSE IF Len(choices) = 0 THEN None
    ELSE IF Len(choices) = 1 THEN choices[1].message.content
    ELSE List([i \in 1..Len(choices) |-> choices[i].message.content])

\* gpt/api.py call_openai_api, the body: [ret, ss, sent, num_tokens], sent
\* telling whether requests.post was called
ApiBody(messages, response, ss) ==
    LET model == ss.MODEL.model
        num_tokens == num_tokens_from_messages(messages, model)
    IN IF TooLong(num_tokens, model)
       THEN [ret |-> None, ss |-> ss, sent |-> FALSE, num_tokens |-> num_tokens]
       ELSE IF IsExc(response)
       THEN [ret |-> response, ss |-> ss, sent |-> TRUE, num_tokens |-> num_tokens]
       ELSE [ret |-> RepliesOf(response.choices),
             ss |-> UsageAdded(ss, response.usage, USAGE_FIELDS),
             sent |-> TRUE, num_tokens |-> num_tokens]

\* requests the model follows in one session
MaxRequests == 2

\* the tokens of the content of a message: few, and the numbers around nine
\* tenths of each context window
ContentTokens == {10, 3678, 3679, 7365, 7366, 14737, 14738, 29484, 29485}

ApiMessages ==
    {<<[role |-> 1, content |-> c]>> : c \in ContentTokens}
    \cup {<<[role |-> 1, content |-> 10], [role |-> 1, name |-> 2, content |-> 10]>>}

Choice(finish_reason, content) ==
    [finish_reason |-> finish_reason, message |-> [content |-> content]]

ApiResponses ==
    {Exc("ReadTimeout"), Exc("HTTPError")}
    \cup {[usage |-> u, choices |-> c] :
            u \in {[prompt_tokens |-> 5, completion_tokens |-> 2, total_tokens |-> 7],
                   [prompt_tokens |-> 5, completion_tokens |-> 2]},
            c \in {<<>>,
                   <<Choice("stop", S_Plain)>>,
                   <<Choice("length", S_Plain)>>,
                   <<Choice("stop", S_Plain), Choice("stop", S_CodeAlpha)>>,
                   <<Choice("stop", S_Plain), Choice("length", S_CodeAlpha)>>}}

\* the session with a model selected
InitApi ==
    /\ session_state \in {Put(initialise(<<>>), "MODEL", [model |-> m]) :
                             m \in MODEL_NAMES}
    /\ cache = EmptyCache
    /\ uuid_next = 0
    /\ shared = ""
    /\ scenario = [texts |-> {}, outcomes |-> {}]
    /\ last = Idle
    /\ probe = [fn |-> "call_openai_api", requests |-> 0]

\* gpt/api.py call_openai_api, lines 90-127
CallOpenAI ==
    /\ probe.requests < MaxRequests
    /\ \E messages \in ApiMessages, response \in ApiResponses :
          \E r \in {ApiBody(messages, response, session_state)} :
             /\ session_state' = r.ss
             /\ probe' = [fn |-> "call_openai_api",
                          requests |-> probe.requests + 1,
                          messages |-> messages, response |-> response,
                          num_tokens |-> r.num_tokens, sent |-> r.sent,
                          ret |-> r.ret, before |-> session_state]
    /\ UNCHANGED <<cache, uuid_next, shared, scenario, last>>

NextApi == CallOpenAI

SpecApi == InitApi /\ [][NextApi]_vars

(***************************************************************************)
(* Properties of call_openai_api                                           *)
(***************************************************************************)
\* a request was made (or refused) by call_openai_api
Called == probe.fn = "call_openai_api" /\ probe.requests > 0

\* the estimate is above nine tenths of the context window of the model
AboveNineTenths ==
    10 * probe.num_tokens > 9 * MODELS[probe.before.MODEL.model]

\* C20: call_openai_api returns None without sending a request and leaves
\* the token counters of the session alone when the estimate exceeds 90% of
\* the context window; it returns None when a choice of the response has the
\* finish_reason length.
ThmNoneWhenTooLong ==
    Called =>
        /\ AboveNineTenths =>
              /\ probe.ret = None
              /\ ~probe.sent
              /\ \A f \in {"prompt_tokens", "completion_tokens", "total_tokens"} :
                    session_state[f] = probe.before[f]
        /\ (probe.sent /\ ~IsExc(probe.response)
            /\ \E i \in 1..Len(probe.response.choices) :
                  probe.response.choices[i].finish_reason = "length") =>
               probe.ret = None

\* the second request of a session is one token above the limit of gpt-4,
\* after a first one that was answered
WitNoneWhenTooLong ==
    /\ Called
    /\ probe.requests = 2
    /\ probe.before.MODEL.model = "gpt-4"
    /\ probe.num_tokens = 7373
    /\ probe.before.total_tokens = IntV(7)
    /\ session_state.total_tokens = IntV(7)
    /\ probe.ret = None
    /\ ~probe.sent

(***************************************************************************)
(* Skills told as one string                                               *)
(***************************************************************************)
SKILL_DELIMITERS == <<";", ",", "|">>

\* the delimiter that yields the greatest number of parts, the first of
\* them in the order ; , | when several do
BestDelimiter(s) ==
    LET parts(i) == Len(Split(s, SKILL_DELIMITERS[i]))
        best == CHOOSE i \in 1..3 :
                    /\ \A j \in 1..3 : parts(j) <= parts(i)
                    /\ \A j \in 1..(i - 1) : parts(j) < parts(i)
    IN SKILL_DELIMITERS[best]

\* the skills of a string: split on the best delimiter, each part stripped
SkillsOfString(s) ==
    LET parts == Split(s, BestDelimiter(s))
    IN List([i \in 1..Len(parts) |-> Str(Strip(parts[i]))])

S_Go == Str(<<"G","o">>)

S_Rust == Str(<<"R","u","s","t">>)

SkillsResolved == probe.fn = "get_skills" /\ probe.done

ResolvedString(obj) ==
    search_field(obj, <<"skills", "Core Competencies", "core_competencies",
                        "Competencies", "competencies">>)

\* C21: when the resolved skills value is a single string, the skills are
\* the parts of the string split on the one delimiter among ; , | that
\* yields the most parts, each stripped of whitespace: Python, Go, Rust in
\* both examples.
CexSkillStringSplit ==
    (SkillsResolved /\ IsStr(ResolvedString(probe.obj))) =>
        /\ probe.ret = SkillsOfString(ResolvedString(probe.obj).str)
        /\ ResolvedString(probe.obj) = S_PythonGoRust
              => probe.ret = List(<<S_Python, S_Go, S_Rust>>)

(***************************************************************************)
(* extract_code on its own: SpecExtract applies it to the texts made of at *)
(* most MaxTokens tokens, a token being a fence, a tag, a colon, a quote   *)
(* or a letter, to a few longer texts, and to None (the reply of a         *)
(* completion call that gave none).                                        *)
(***************************************************************************)
MaxTokens == 3

CodeTokens ==
    {FENCE_PYTHON, FENCE_HTML, FENCE, CODE_OPEN, CODE_CLOSE, <<":">>, DQUOTE,
     SQUOTE, <<"a">>}

RECURSIVE Flatten(_)
Flatten(tokens) ==
    IF tokens = <<>> THEN <<>> ELSE Head(tokens) \o Flatten(Tail(tokens))

\* longer texts in the manner of tests/test_extract.py: a colon before a
\* fence, quotes inside a python fence, a tag inside an html fence, and
\* quotes of both kinds
ExampleContents ==
    {Str(Flatten(t)) : t \in
        {<<<<":">>, FENCE, <<"a">>, FENCE>>,
         <<<<"a">>, FENCE_PYTHON, SQUOTE, <<"a">>, SQUOTE, FENCE>>,
         <<<<"a">>, FENCE_HTML, CODE_OPEN, <<"a">>, CODE_CLOSE, FENCE>>,
         <<SQUOTE, <<"a">>, SQUOTE, DQUOTE, <<"a">>, DQUOTE>>}}

CodeContents ==
    {Str(Flatten(t)) : t \in UNION {[1..n -> CodeTokens] : n \in 0..MaxTokens}}
    \cup ExampleContents \cup {None}

InitExtract ==
    /\ session_state = initialise(<<>>)
    /\ cache = EmptyCache
    /\ uuid_next = 0
    /\ shared = ""
    /\ scenario = NoScenario
    /\ last = Idle
    /\ probe \in {[fn |-> "extract_code", content |-> c, done |-> FALSE,
                   ret |-> None] : c \in CodeContents}

ExtractCode ==
    /\ probe.fn = "extract_code"
    /\ ~probe.done
    /\ probe' = [probe EXCEPT !.done = TRUE, !.ret = extract_code(probe.content)]
    /\ UNCHANGED <<session_state, cache, uuid_next, shared, scenario, last>>

NextExtract == ExtractCode

SpecExtract == InitExtract /\ [][NextExtract]_vars

\* the non-empty stretches s[p..e] that open precedes and close follows
Delimited(s, open, close) ==
    {pe \in (1..Len(s)) \X (1..Len(s)) :
        /\ pe[1] <= pe[2]
        /\ OccursAt(s, open, pe[1] - Len(open))
        /\ OccursAt(s, close, pe[2] + 1)}

\* the stretch of D that starts leftmost, the shortest or the longest of
\* those that start there
Leftmost(s, D, longest) ==
    LET p == Min({pe[1] : pe \in D})
        ends == {pe[2] : pe \in {x \in D : x[1] = p}}
    IN SubSeq(s, p, IF longest THEN Max(ends) ELSE Min(ends))

\* the seven kinds of text in their priority: python fence, html fence,
\* generic fence, code tag, after the first colon, double quotes, single
\* quotes
KIND_OPEN == <<FENCE_PYTHON, FENCE_HTML, FENCE, CODE_OPEN, <<":">>, DQUOTE, SQUOTE>>

KIND_CLOSE == <<FENCE, FENCE, FENCE, CODE_CLOSE, <<>>, DQUOTE, SQUOTE>>

KIND_LONGEST == <<FALSE, FALSE, TRUE, FALSE, TRUE, FALSE, TRUE>>

KindMatches(s, k) ==
    CASE k = 5 -> Contains(s, <<":">>)
      [] k = 4 -> \/ Delimited(s, CODE_OPEN, CODE_CLOSE) # {}
                  \/ Contains(s, CODE_OPEN \o CODE_CLOSE)
      [] OTHER -> Delimited(s, KIND_OPEN[k], KIND_CLOSE[k]) # {}

KindText(s, k) ==
    CASE k = 5 -> SubSeq(s, Min({i \in 1..Len(s) : s[i] = ":"}) + 1, Len(s))
      [] k = 4 -> IF Delimited(s, CODE_OPEN, CODE_CLOSE) # {}
                  THEN Leftmost(s, Delimited(s, CODE_OPEN, CODE_CLOSE), FALSE)
                  ELSE <<>>
      [] OTHER -> Leftmost(s, Delimited(s, KIND_OPEN[k], KIND_CLOSE[k]),
                           KIND_LONGEST[k])

CodeExtracted == probe.fn = "extract_code" /\ probe.done /\ IsStr(probe.content)

\* C22: extract_code returns the text matched by the first kind that
\* matches, in the order python fence, html fence, generic fence, code tag,
\* text after the first colon, double-quoted text, single-quoted text, with
\* the opening and closing code tags removed from it, and None when no kind
\* matches.
ThmExtractCodePriority ==
    CodeExtracted =>
        LET s == probe.content.str
            hit == {k \in 1..7 : KindMatches(s, k)}
        IN /\ hit = {} <=> probe.ret = None
           /\ hit # {} =>
                 probe.ret = Str(Remove(Remove(KindText(s, Min(hit)), CODE_OPEN),
                                        CODE_CLOSE))

\* a text with a colon first and a fenced letter after it has given the
\* letter
WitExtractCodePriority ==
    /\ CodeExtracted
    /\ probe.content = Str(<<":">> \o FENCE \o <<"a">> \o FENCE)
    /\ probe.ret = Str(<<"a">>)

(***************************************************************************)
(* get_chosen_experiences on its own: SpecChosen applies it to a session   *)
(* of two experiences, the first with up to MaxProjects projects, and to a *)
(* selection of their projects in any order.                               *)
(***************************************************************************)
MaxProjects == 3

\* the project numbered i as the parser leaves it
NumberedProject(i) ==
    [uuid |-> Uuid(i), title |-> Str(<<"P">> \o Decimal(i)),
     description |-> S_BuiltX, contributions |-> List(<<S_DidA>>)]

\* an experience with the n projects after the first base projects
ExperienceWith(uuid, base, n) ==
    [uuid |-> Uuid(uuid), title |-> S_Dev, company |-> S_Acme,
     date_range |-> S_JanJun,
     projects |-> List([i \in 1..n |-> NumberedProject(base + i)])]

\* the session once a resume of two experiences is analysed, the first with
\* n projects and the second with one
ChosenSession(n) ==
    LET experiences == List(<<ExperienceWith(MaxProjects + 2, 0, n),
                              ExperienceWith(MaxProjects + 3, n, 1)>>)
    IN InitProjects(Put(Put(initialise(<<>>), "statement", S_Engineer),
                        "experiences", experiences),
                    experiences.list[1].projects.list
                        \o experiences.list[2].projects.list)

\* the sequences without repetition over the set S
RECURSIVE Arrangements(_)
Arrangements(S) ==
    {<<>>} \cup UNION {{<<x>> \o r : r \in Arrangements(S \ {x})} : x \in S}

InitChosen ==
    /\ \E n \in 1..MaxProjects :
          /\ session_state = ChosenSession(n)
          /\ probe \in {[fn |-> "get_chosen_experiences", raw |-> choices,
                         done |-> FALSE, ret |-> None] :
                           choices \in Arrangements(DOMAIN OptionsOf(ChosenSession(n)))
                                       \ {<<>>}}
    /\ cache = EmptyCache
    /\ uuid_next = MaxProjects + 3
    /\ shared = ""
    /\ scenario = NoScenario
    /\ last = Idle

\* pages/6_Export_Resume.py export_docx: the projects selected go to
\* get_chosen_experiences with the options of the page
ExportChosen ==
    /\ probe.fn = "get_chosen_experiences"
    /\ "done" \in DOMAIN probe
    /\ ~probe.done
    /\ \E r \in {get_chosen_experiences(probe.raw, OptionsOf(session_state),
                                        session_state)} :
          /\ session_state' = r.ss
          /\ probe' = [probe EXCEPT !.done = TRUE, !.ret = r.ret]
    /\ last' = [op |-> "Export"]
    /\ UNCHANGED <<cache, uuid_next, shared, scenario>>

NextChosen == ExportChosen

SpecChosen == InitChosen /\ [][NextChosen]_vars

ChosenExported ==
    probe.fn = "get_chosen_experiences" /\ "done" \in DOMAIN probe /\ probe.done

\* the uuids of the experiences that own the projects chosen, in the order
\* of their first appearance in choices
RECURSIVE OwnersOf(_, _, _)
OwnersOf(choices, options, seen) ==
    IF choices = <<>> THEN seen
    ELSE LET e == options[Head(choices)].exp_uuid
         IN OwnersOf(Tail(choices), options,
                     IF \E i \in 1..Len(seen) : seen[i] = e THEN seen
                     ELSE Append(seen, e))

\* the uuids of the projects of an experience
ProjectUuids(exp) == [i \in 1..Len(exp.projects.list) |-> exp.projects.list[i].uuid]

\* the uuids of the projects of the session experience exp_uuid that were
\* chosen, in their original order
ChosenUuids(ss, exp_uuid, choices, options) ==
    LET exp == CHOOSE e \in {ss.experiences.list[i] :
                                 i \in 1..Len(ss.experiences.list)} :
                   e.uuid = exp_uuid
        IsChosen(u) == \E i \in 1..Len(choices) : options[choices[i]].proj_uuid = u
    IN SelectSeq(ProjectUuids(exp), IsChosen)

\* C23: get_chosen_experiences returns, for each experience that owns a
\* chosen project, in the order of first appearance in choices, a copy
\* whose projects are exactly the chosen ones in their original order,
\* whatever the pattern of chosen and unchosen projects.
CexExactlyChosenProjects ==
    ChosenExported =>
        LET options == OptionsOf(session_state)
            owners == OwnersOf(probe.raw, options, <<>>)
        IN /\ IsList(probe.ret)
           /\ Len(probe.ret.list) = Len(owners)
           /\ \A i \in 1..Len(owners) :
                 /\ probe.ret.list[i].uuid = owners[i]
                 /\ ProjectUuids(probe.ret.list[i]) =
                        ChosenUuids(session_state, owners[i], probe.raw, options)

(***************************************************************************)
(* The session across resumes: SpecSession lets the user enter JSON        *)
(* resumes (two of the expected shape, one without experiences, one whose  *)
(* skills are a list), analyse, generate and choose statement versions,    *)
(* and reset.                                                              *)
(***************************************************************************)
KEEP_LIST == {"txt_resume", "layouts", "layout", "MODEL"}

\* a reset that keeps no key
reset_all(ss) == initialise(<<>>)

\* core/initialisation.py reset once the button is pressed: every key
\* outside keep_list is deleted, then initialise sets the absent keys
reset(ss) == initialise([k \in DOMAIN ss \cap KEEP_LIST |-> ss[k]])

\* core/initialisation.py reset: the Reset button.  The stores of
\* st.cache_data outlive the session keys.  For the properties, last keeps
\* the session as it was before (before).
Reset ==
    /\ session_state' = reset(session_state)
    /\ shared' = ""
    /\ last' = [op |-> "Reset", before |-> session_state]
    /\ probe' = Idle
    /\ UNCHANGED <<cache, uuid_next, scenario>>

SessionTexts == {JsonText("2"), JsonText("4"), JsonText("6"), JsonText("7")}

InitSession ==
    /\ session_state = initialise(<<>>)
    /\ cache = EmptyCache
    /\ uuid_next = 0
    /\ shared = ""
    /\ scenario = [texts |-> SessionTexts, outcomes |-> {None}]
    /\ last = Idle
    /\ probe = Idle

NextSession ==
    \/ EditResume
    \/ Analyse
    \/ GenerateStatement
    \/ ChooseStatementVersion
    \/ Reset

SpecSession == InitSession /\ [][NextSession]_vars

\* the session holds the statement, the skills and the experiences of doc:
\* as many experiences, each with the title, the company and the projects
\* (by their contributions) of the source
SessionHolds(ss, doc) ==
    /\ ss.statement = doc.statement
    /\ ss.skills = List(FlattenSkills(doc.skills, SKILL_CATEGORIES))
    /\ IsList(ss.experiences)
    /\ Len(ss.experiences.list) = Len(doc.experiences.list)
    /\ \A i \in 1..Len(doc.experiences.list) :
          LET src == doc.experiences.list[i]
              out == ss.experiences.list[i]
          IN /\ out.title = src.title
             /\ out.company = src.company
             /\ Len(out.projects.list) = Len(src.projects.list)
             /\ \A j \in 1..Len(src.projects.list) :
                   out.projects.list[j].contributions
                       = src.projects.list[j].contributions

\* C24: every Analyse action on a valid JSON resume leaves the session
\* statement, skills and experiences equal to the content of the text just
\* analysed, for any history of earlier actions.
CexAnalyseWritesDocument ==
    (Analysed /\ TextHasExpectedShape) =>
        SessionHolds(session_state, TheDocument)

\* the four session fields all come from the document doc of the text
AllFromText(ss, doc) ==
    /\ ExpectedShape(doc)
    /\ "resume" \in DOMAIN ss
    /\ IsDict(ss.resume)
    /\ "statement" \in DOMAIN ss.resume
    /\ ss.resume.statement = doc.statement
    /\ ss.resume.skills = doc.skills
    /\ SessionHolds(ss, doc)

\* the four session fields are as they were before the action
AllAsBefore(ss, before) == DocumentFields(ss) = before

\* C25: after an Analyse action on a JSON text the session fields resume,
\* statement, skills and experiences either all come from the text or are
\* all as they were before the action, also when parse_json fails partway.
CexAnalyseAtomic ==
    (Analysed /\ TextIsDocument) =>
        \/ AllFromText(session_state, TheDocument)
        \/ AllAsBefore(session_state, last.before)

\* the Analyse action has just replaced the Document by that of the text
DocumentReplaced ==
    /\ Analysed
    /\ TextHasExpectedShape
    /\ last.fresh
    /\ ~IsExc(last.ret)

\* C26: once an Analyse action has replaced the Document, and until the
\* user generates alternatives for it, choose_statement returns the newly
\* parsed statement, never an alternative generated for the resume analysed
\* before.
CexNoStatementLeak ==
    DocumentReplaced =>
        /\ session_state.statement = TheDocument.statement
        /\ choose_statement(session_state) = TheDocument.statement

(***************************************************************************)
(* reset on its own: SpecReset applies it to the sessions the pages may    *)
(* have left, with or without version choices for the statement and for a  *)
(* project.                                                                *)
(***************************************************************************)
\* the session with the statement versions generated and version c chosen
WithStatementChoice(ss, c) ==
    Put(Put(Put(ss, "statement_choice", IntV(c)),
            "new_statements", List(StatementVersions)),
        "btn_generate_statement", TRUE)

\* the session with the description versions of the first project
\* generated and version v chosen
WithDescriptionChoice(ss, v) ==
    LET project == ss.experiences.list[1].projects.list[1]
    IN Put(Put(Put(ss, FieldKey("generate_description_", project), TRUE),
               FieldKey("new_descriptions_", project), List(DescriptionVersions)),
           FieldKey("description_choice_", project), VersionOption(v))

\* the sessions the Reset button may meet
ResetSessions ==
    {Put(Put(Put(Put(Put(s, "txt_resume", t), "layout", [layout |-> l]),
                 "MODEL", [model |-> m]), "prompt_tokens", IntV(n)),
         "txt_jd", jd) :
        t \in {Str(<<>>), JsonText("2")},
        l \in {"centered", "wide"},
        m \in {"gpt-3.5-turbo", "gpt-4"},
        n \in {0, 7},
        jd \in {Str(<<>>), S_Dev},
        s \in {ChoiceSession}
              \cup {WithStatementChoice(ChoiceSession, c) : c \in 0..2}
              \cup {WithDescriptionChoice(ChoiceSession, v) : v \in 0..1}
              \cup {WithDescriptionChoice(WithStatementChoice(ChoiceSession, 1), 1)}}

InitReset ==
    /\ session_state \in ResetSessions
    /\ cache = EmptyCache
    /\ uuid_next = 3
    /\ shared = ""
    /\ scenario = NoScenario
    /\ last = Idle
    /\ probe = Idle

NextReset == Reset

SpecReset == InitReset /\ [][NextReset]_vars

WasReset == last.op = "Reset"

\* C27: after a confirmed reset the keys txt_resume, layouts, layout and
\* MODEL have the values they had, the session has the keys of initialise
\* and no other (no version choice of the statement or of a project), and
\* every key but the four kept has its default: the lists empty, the texts
\* empty, the flags False, the counters 0.
ThmResetKeepsFour ==
    WasReset =>
        /\ \A k \in {"txt_resume", "layouts", "layout", "MODEL"} :
              session_state[k] = last.before[k]
        /\ DOMAIN session_state =
              {"btn_summary", "btn_analyse", "btn_estimate",
               "btn_generate_statement", "btn_sort_skills",
               "btn_generate_skills", "skills_number_changed",
               "messages_initalised", "txt_jd", "txt_resume", "txt_skills",
               "statement", "dl_link", "letter", "company_role",
               "job_analysed", "new_statements", "new_skills", "experiences",
               "motivations", "skills", "sorted_skills", "choosen_skills",
               "background", "messages", "project_choices",
               "max_skills_number", "prompt_tokens", "completion_tokens",
               "total_tokens", "temperature_message", "MODEL", "layouts",
               "layout"}
        /\ \A k \in {"experiences", "skills", "new_statements", "new_skills",
                     "motivations", "sorted_skills", "choosen_skills",
                     "background", "messages", "project_choices"} :
              session_state[k] = List(<<>>)
        /\ \A k \in {"statement", "txt_jd", "txt_skills", "dl_link", "letter",
                     "company_role", "job_analysed"} :
              session_state[k] = Str(<<>>)
        /\ \A k \in {"btn_summary", "btn_analyse", "btn_estimate",
                     "btn_generate_statement", "btn_sort_skills",
                     "btn_generate_skills", "skills_number_changed",
                     "messages_initalised"} :
              session_state[k] = FALSE
        /\ \A k \in {"max_skills_number", "prompt_tokens", "completion_tokens",
                     "total_tokens"} :
              session_state[k] = IntV(0)
        /\ session_state.temperature_message = [float |-> "0.5"]

\* a session with a resume text, the wide layout, another model, tokens
\* counted and version choices for the statement and a project was reset
WitResetKeepsFour ==
    /\ WasReset
    /\ last.before.txt_resume = JsonText("2")
    /\ last.before.layout = [layout |-> "wide"]
    /\ last.before.MODEL = [model |-> "gpt-4"]
    /\ last.before.prompt_tokens = IntV(7)
    /\ last.before.txt_jd = S_Dev
    /\ last.before.experiences # List(<<>>)
    /\ "statement_choice" \in DOMAIN last.before
    /\ "description_choice_1" \in DOMAIN last.before
    /\ session_state.txt_resume = JsonText("2")
    /\ session_state.layout = [layout |-> "wide"]
    /\ session_state.experiences = List(<<>>)

(***************************************************************************)
(* pages/4_Core_Competencies.py: the skills page.  The three lists skills, *)
(* sorted_skills and choosen_skills may be one list object (parse_json     *)
(* assigns the same list to all three, on_skills_sorted assigns the sorted *)
(* list itself when it is short enough); every append of the page is       *)
(* guarded by a membership test on the list appended to, so the values are *)
(* the same whether the objects are shared or not, and the model keeps     *)
(* values only.                                                            *)
(***************************************************************************)
\* str.capitalize() of one character, for the letters of the replies
UpperOf(c) ==
    CASE c = "a" -> "A" [] c = "b" -> "B" [] c = "c" -> "C" [] OTHER -> c

\* pages/4 parse_skills: extract_code, split on commas, strip, capitalise
\* the first character; None has no split and an empty skill no first
\* character
parse_skills(reply) ==
    LET skills_str == extract_code(reply)
        parts == Split(skills_str.str, ",")
    IN IF IsExc(skills_str) THEN skills_str
       ELSE IF ~IsStr(skills_str) THEN Exc("AttributeError")
       ELSE IF \E i \in 1..Len(parts) : Strip(parts[i]) = <<>>
       THEN Exc("IndexError")
       ELSE List([i \in 1..Len(parts) |->
                    Str(<<UpperOf(Head(Strip(parts[i])))>>
                        \o Tail(Strip(parts[i])))])

\* skills[:max_number] if len(skills) > max_number else skills, for the
\* max_number >= 0 the slider and len give
Truncated(skills, max_number) ==
    IF Len(skills) > max_number THEN SubSeq(skills, 1, max_number) ELSE skills

\* on_skills_sorted keeping the whole sorted list
on_skills_sorted_whole(ss) == Put(ss, "choosen_skills", ss.sorted_skills)

\* pages/4 on_skills_sorted
on_skills_sorted(ss) ==
    Put(ss, "choosen_skills",
        List(Truncated(ss.sorted_skills.list, ss.max_skills_number.int)))

\* pages/4 on_skills_number_changed
on_skills_number_changed(ss) ==
    LET max_number == ss.max_skills_number.int
        skills == IF max_number > Len(ss.choosen_skills.list)
                  THEN ss.sorted_skills.list
                  ELSE ss.choosen_skills.list
    IN Put(ss, "choosen_skills", List(Truncated(skills, max_number)))

\* if skill not in list: list.append(skill)
AppendNew(list, skill) ==
    IF \E i \in 1..Len(list) : list[i] = skill THEN list ELSE Append(list, skill)

RECURSIVE AppendAllNew(_, _)
AppendAllNew(list, skills) ==
    IF skills = <<>> THEN list
    ELSE AppendAllNew(AppendNew(list, Head(skills)), Tail(skills))

\* pages/4 distribute_new_skills
distribute_new_skills(ss) ==
    LET skills == ss.new_skills.list
        chosen == AppendAllNew(ss.choosen_skills.list, skills)
    IN Put(Put(Put(Put(Put(ss, "skills",
                           List(AppendAllNew(ss.skills.list, skills))),
                       "sorted_skills",
                       List(AppendAllNew(ss.sorted_skills.list, skills))),
                   "choosen_skills", List(chosen)),
               "new_skills", List(<<>>)),
           "max_skills_number", IntV(Len(chosen)))

\* pages/4 edit_skills, lines 228-230: the chosen skills join the pool
SkillsPooled(ss) ==
    Put(ss, "skills",
        List(AppendAllNew(ss.skills.list, ss.choosen_skills.list)))

S_A == Str(<<"A">>)

S_B == Str(<<"B">>)

\* what the completion service may reply to sort_skills and generate_skills
SortReplies ==
    {None,
     Str(CODE_OPEN \o <<"b", ",", " ", "A">> \o CODE_CLOSE),
     Str(CODE_OPEN \o <<"a", ",">> \o CODE_CLOSE)}

GenerateReplies ==
    {None, Str(CODE_OPEN \o <<"c">> \o CODE_CLOSE)}

\* the session once a resume with the skills given is analysed
SkillsSession(skills) ==
    Put(Put(Put(Put(initialise(<<>>), "skills", List(skills)),
                "sorted_skills", List(skills)),
            "choosen_skills", List(skills)),
        "max_skills_number", IntV(Len(skills)))

InitSkills ==
    /\ session_state \in {SkillsSession(s) : s \in {<<>>, <<S_A, S_B>>}}
    /\ cache = EmptyCache
    /\ uuid_next = 0
    /\ shared = ""
    /\ scenario = NoScenario
    /\ last = Idle
    /\ probe = Idle

\* pages/4 edit_skills, lines 238-243: the multiselect of the chosen skills
SelectSkills ==
    /\ \E chosen \in SelectionsOf(SkillsPooled(session_state).skills.list) :
          /\ List(chosen) # session_state.choosen_skills
          /\ session_state' =
                 Put(SkillsPooled(session_state), "choosen_skills", List(chosen))
    /\ last' = [op |-> "SelectSkills"]
    /\ UNCHANGED <<cache, uuid_next, shared, scenario, probe>>

\* pages/4 edit_skills, lines 247-257: the Sort skills button.  The reply
\* of sort_skills is any of SortReplies (its cache, which replays the reply
\* given to the same job description and skills, only narrows the choice).
\* An exception ends the run with the flag set.
SortSkills ==
    /\ Len(SkillsPooled(session_state).skills.list) > 0
    /\ \E ss \in {Put(SkillsPooled(session_state), "btn_sort_skills", TRUE)} :
       \E reply \in SortReplies :
          LET parsed == parse_skills(reply)
          IN IF IsExc(parsed)
             THEN /\ session_state' = ss
                  /\ last' = [op |-> "SortSkills", ret |-> parsed]
             ELSE /\ session_state' =
                         on_skills_sorted(Put(ss, "sorted_skills", parsed))
                  /\ last' = [op |-> "on_skills_sorted"]
    /\ UNCHANGED <<cache, uuid_next, shared, scenario, probe>>

\* pages/4 edit_skills, lines 233-236 and 260-264: the slider of the number
\* of skills; trigger_skills_number_changed sets the number and the flag,
\* and the run that follows limits the chosen skills and clears the flag.
\* For the properties, last keeps the skills chosen before (before).
ChangeSkillsNumber ==
    /\ Len(session_state.skills.list) > 0
    /\ \E n \in 0..Len(session_state.skills.list) :
          /\ IntV(n) # session_state.max_skills_number
          /\ session_state' =
                 on_skills_number_changed(
                     SkillsPooled(Put(session_state, "max_skills_number", IntV(n))))
          /\ last' = [op |-> "on_skills_number_changed",
                      before |-> session_state.choosen_skills]
    /\ UNCHANGED <<cache, uuid_next, shared, scenario, probe>>

\* pages/4 edit_skills, lines 289-295: the Generate skills button
GenerateSkills ==
    /\ \E reply \in GenerateReplies :
          LET parsed == parse_skills(reply)
          IN IF IsExc(parsed)
             THEN /\ session_state' = SkillsPooled(session_state)
                  /\ last' = [op |-> "GenerateSkills", ret |-> parsed]
             ELSE /\ session_state' =
                         Put(Put(Put(SkillsPooled(session_state),
                                     "new_skills", parsed),
                                 "btn_generate_skills", TRUE),
                             "btn_sort_skills", FALSE)
                  /\ last' = [op |-> "GenerateSkills", ret |-> None]
    /\ UNCHANGED <<cache, uuid_next, shared, scenario, probe>>

\* pages/4 edit_skills, lines 297-308: the multiselect of the new skills
\* and the Add selected skills button
AddSelectedSkills ==
    /\ session_state.btn_generate_skills
    /\ Len(session_state.new_skills.list) > 0
    /\ \E selected \in SelectionsOf(session_state.new_skills.list) :
          /\ selected # <<>>
          /\ session_state' =
                 distribute_new_skills(
                     Put(SkillsPooled(session_state), "new_skills", List(selected)))
          /\ last' = [op |-> "distribute_new_skills"]
    /\ UNCHANGED <<cache, uuid_next, shared, scenario, probe>>

NextSkills ==
    \/ SelectSkills
    \/ SortSkills
    \/ ChangeSkillsNumber
    \/ GenerateSkills
    \/ AddSelectedSkills

SpecSkills == InitSkills /\ [][NextSkills]_vars

\* list a is the first n entries of list b (all of b when b is shorter)
FirstEntries(a, b, n) ==
    a = SubSeq(b, 1, IF n < Len(b) THEN n ELSE Len(b))

\* C28: right after on_skills_sorted, on_skills_number_changed and
\* distribute_new_skills the chosen skills are at most max_skills_number;
\* after on_skills_sorted they are the first max_skills_number entries of
\* sorted_skills; after on_skills_number_changed they are the first
\* entries of sorted_skills when the number was raised above the number
\* chosen, and of the skills chosen before otherwise.
ThmChosenWithinLimit ==
    LET chosen == session_state.choosen_skills.list
        max_number == session_state.max_skills_number.int
    IN /\ last.op \in {"on_skills_sorted", "on_skills_number_changed",
                       "distribute_new_skills"}
             => Len(chosen) <= max_number
       /\ last.op = "on_skills_sorted"
             => FirstEntries(chosen, session_state.sorted_skills.list, max_number)
       /\ last.op = "on_skills_number_changed"
             => IF max_number > Len(last.before.list)
                THEN FirstEntries(chosen, session_state.sorted_skills.list,
                                  max_number)
                ELSE FirstEntries(chosen, last.before.list, max_number)

\* a sort has cut the chosen skills to the limit, leaving sorted skills out
WitChosenWithinLimit ==
    /\ last.op = "on_skills_sorted"
    /\ Len(session_state.sorted_skills.list) > session_state.max_skills_number.int
    /\ Len(session_state.choosen_skills.list) = session_state.max_skills_number.int
    /\ session_state.max_skills_number.int >= 1

\* ---------------------------------------------------------------------
\* The chat: gpt/query.py precondition_msg and query_gpt, and the
\* checkbox of a message (pages/8_ChatGPT.py handle_check_change).
\* A message is a dict with the keys id, select, type, role and content.

MaxMessages == 4

S_Coach == Str(<<"c","o","a","c","h">>)

S_Question == Str(<<"q">>)

S_Reply == Str(<<"r">>)

\* gpt/query.py get_system_msg, lines 698-702: the message of the system role
get_system_msg(system_role, n) ==
    [id |-> Uuid(n), select |-> TRUE, type |-> "system", role |-> "system",
     content |-> system_role]

\* a message the user has sent
InputMessage(content, n) ==
    [id |-> Uuid(n), select |-> TRUE, type |-> "input", role |-> "user",
     content |-> content]

\* the messages of a session before the first query
ChatSessions ==
    {[messages |-> List(<<get_system_msg(S_Coach, 1)>>)],
     [messages |-> List(<<get_system_msg(S_Coach, 1),
                          InputMessage(S_Question, 2)>>)]}

\* what the completion call of query_gpt may return or raise
ChatOutcomes == {S_Reply, None, Exc("HTTPError")}

\* sends the whole message instead of its two valid fields
precondition_msg_whole(msg) ==
    msg

\* gpt/query.py precondition_msg, lines 200-209
precondition_msg(msg) ==
    [role |-> msg.role, content |-> msg.content]

\* gpt/query.py query_gpt, lines 238-241: the messages of the request
RECURSIVE SelectedMessages(_)
SelectedMessages(msgs) ==
    IF msgs = <<>> THEN <<>>
    ELSE IF Head(msgs).select
         THEN <<precondition_msg(Head(msgs))>> \o SelectedMessages(Tail(msgs))
         ELSE SelectedMessages(Tail(msgs))

\* gpt/query.py query_gpt, lines 243-244: the message of the reply
ReplyMessage(reply, n) ==
    [id |-> Uuid(n), select |-> TRUE, type |-> "reply", role |-> "assistant",
     content |-> reply]

\* gpt/query.py query_gpt, lines 212-245, with the outcome of the completion
\* call: an exception of the call leaves the function before the append.
\* Returns the session, the messages sent and the number of uuids drawn.
query_gpt(ss, uuid, outcome) ==
    LET messages == SelectedMessages(ss.messages.list)
    IN IF IsExc(outcome)
       THEN [session |-> ss, sent |-> messages, uuid |-> uuid, ret |-> outcome]
       ELSE [session |-> [ss EXCEPT !.messages =
                             List(Append(@.list, ReplyMessage(outcome, uuid + 1)))],
             sent |-> messages, uuid |-> uuid + 1, ret |-> None]

\* pages/8_ChatGPT.py handle_check_change, lines 275-287
handle_check_change(ss, index) ==
    [ss EXCEPT !.messages =
        List([@.list EXCEPT ![index].select = ~@])]

InitChat ==
    /\ session_state \in ChatSessions
    /\ cache = EmptyCache
    /\ uuid_next = Len(session_state.messages.list)
    /\ shared = ""
    /\ scenario = NoScenario
    /\ last = Idle
    /\ probe = Idle

\* the user ticks or unticks the checkbox of message index
CheckMessage ==
    /\ \E index \in 1..Len(session_state.messages.list) :
          /\ session_state' = handle_check_change(session_state, index)
          /\ last' = [op |-> "handle_check_change", index |-> index]
    /\ UNCHANGED <<cache, uuid_next, shared, scenario, probe>>

\* a call of query_gpt; for the properties, last keeps the messages of the
\* session before the call (before), the request (sent), the outcome of
\* the completion call (reply) and what query_gpt returned or raised (ret)
QueryGpt ==
    /\ Len(session_state.messages.list) < MaxMessages
    /\ uuid_next < MaxUuid
    /\ \E outcome \in ChatOutcomes :
       \E r \in {query_gpt(session_state, uuid_next, outcome)} :
          /\ session_state' = r.session
          /\ uuid_next' = r.uuid
          /\ last' = [op |-> "query_gpt", before |-> session_state.messages,
                      sent |-> r.sent, reply |-> outcome, ret |-> r.ret]
    /\ UNCHANGED <<cache, shared, scenario, probe>>

NextChat ==
    \/ CheckMessage
    \/ QueryGpt

SpecChat == InitChat /\ [][NextChat]_vars

\* message i of the request is the i-th selected message of msgs, in the
\* order of msgs, with exactly the fields role and content
IsSelectionOf(sent, msgs) ==
    \E pos \in [1..Len(sent) -> 1..Len(msgs)] :
       /\ \A i, j \in 1..Len(sent) : i < j => pos[i] < pos[j]
       /\ {pos[i] : i \in 1..Len(sent)} = {k \in 1..Len(msgs) : msgs[k].select}
       /\ \A i \in 1..Len(sent) :
             /\ DOMAIN sent[i] = {"role", "content"}
             /\ sent[i].role = msgs[pos[i]].role
             /\ sent[i].content = msgs[pos[i]].content

\* the request of the last query_gpt is the selection of the messages
RequestIsSelection ==
    last.op = "query_gpt" => IsSelectionOf(last.sent, last.before.list)

ProjectsOfResume(resume) ==
    IF ExperiencesKey(resume) = "" \/ ~IsList(get_experiences(resume)) THEN {}
    ELSE LET exps == get_experiences(resume).list
         IN {exps[i].projects.list :
                i \in {j \in 1..Len(exps) : /\ "projects" \in DOMAIN exps[j]
                                             /\ IsList(exps[j].projects)}}

\* Analyse has returned on a text that is JSON and was new to parse_json
AnalysedJson ==
    /\ last.op = "Analyse"
    /\ ~IsExc(last.ret)
    /\ last.fresh
    /\ IsJsonText(session_state.txt_resume)

\* C30: after an Analyse the session key resume still equals the JSON that
\* was parsed, and no project of its experiences has a uuid.
CexResumeAsParsed ==
    AnalysedJson
       => /\ session_state.resume = json_loads(session_state.txt_resume)
          /\ \A projects \in ProjectsOfResume(session_state.resume) :
                \A i \in 1..Len(projects) : "uuid" \notin DOMAIN projects[i]

====
